---- MODULE Spec2Model ----
(***************************************************************************)
(* A model of the subscription reconciliation scripts:                     *)
(*   src/sharepoint_excel_update.py  (main run against the remote sheet)   *)
(*   src/enhanced_data_fetcher.py    (the paged fetcher with validation)   *)
(***************************************************************************)
EXTENDS Integers, Sequences, FiniteSets, TLC

(***************************************************************************)
(* Bounds of the model                                                     *)
(***************************************************************************)
\* largest number of records a subscription-platform endpoint holds at start
MaxTotal == 12
\* largest page size the server uses (stands for limit = 100)
MaxPerPage == 2
\* records the server may receive while a fetch is running
MaxInserts == 1
\* records deleted on an endpoint while a single fetch is running
MaxDeletes == 1
\* most customer-subscription records the users endpoint holds at the start of a run
MaxUsers == 2
\* largest column index converted to letters (AAA is column 703)
MaxCol == 730
\* most invoices in the table of a single call of an invoice calculation
MaxInvoices == 2
\* the latest hour a date of a single call of calculate_status3 falls on
MaxHour == 3
\* most calls of the sheet writer in a row against the same sheet
MaxWriterCalls == 2

(***************************************************************************)
(* Program constants                                                       *)
(***************************************************************************)
\* fetch_calendesk_data_all: max_pages = 10
max_pages == 10
\* make_api_request_with_retry: max_retries = 3
max_retries == 3

VARIABLES
    \* ---- the subscription-platform endpoints (environment)
    srv_records,     \* per endpoint: ids of the records held, newest first
    srv_per_page,    \* records per page the server serves
    srv_inserts,     \* records created since the run began
    srv_deletes,     \* records deleted since the run began
    seed,            \* selects the attributes of the records (see UserRecord)
    \* ---- one call of a paged fetcher
    url,             \* the endpoint fetched: "subscriptions" | "users"
    fetcher,         \* the function that runs
    fpc,             \* "idle" | "start" | "loop" | "returned"
    current_page,
    total_pages,
    total_records,
    all_data,
    exc,             \* an exception escaped the call
    starting_after,  \* params['starting_after'] of the cursor fetch (0: not set)
    \* ---- observation of the call (history, read by no guard)
    requested,       \* page indices requested, in order (in the cursor fetch:
                     \* the starting_after of each request)
    served,          \* the data of each page answered with 200, in order
    declared,        \* what each of these answers declared, in order: last_page
                     \* (has_more in the cursor fetch)
    page_failed,     \* index of the page whose request gave no 200 (0: none)
    fail_kind,       \* "" | "exhausted" | "client_error"
    attempts,        \* HTTP attempts issued by the last page request
    \* ---- the run (main)
    pc,              \* position of the run
    config,          \* config.json: date_settings
    all_subscriptions,
    users_subscriptions,
    df_calendesk,
    df_stripe,
    crm_nip_list,
    date_update_success,
    subscriptions_success,
    \* ---- observation of the run (history, read by no guard)
    df_merged,       \* the table as the merge left it
    df_dated,        \* the table as the date conversion left it
    df_platform,     \* the table as it was before the CRM rows were appended
    access_token,    \* get_access_token: "none" | "acquired" | "failed"
    fetch_truncated, \* endpoints whose fetch lost a page of records after it had data
    crm_session,     \* initialize_session: "none" | "ok" | "failed"
    \* ---- the remote sheet (environment)
    ops,             \* the range operations issued against it, in order
    sheet,           \* the content of its cells: <<row, column index>> -> value
    \* ---- a single call of a pure function
    arg,
    result

srvVars == <<srv_records, srv_per_page, srv_inserts, srv_deletes, seed>>
fetchVars ==
    <<url, fetcher, fpc, current_page, total_pages, total_records, all_data, exc,
      starting_after>>
obsVars == <<requested, served, declared, page_failed, fail_kind, attempts>>
dataVars == <<all_subscriptions, users_subscriptions, df_calendesk, df_stripe,
              crm_nip_list, df_merged, df_dated, df_platform>>
sheetVars == <<ops, sheet, date_update_success, subscriptions_success>>
pureVars == <<arg, result>>
runVars == <<access_token, fetch_truncated, crm_session>>
mainVars == <<config, dataVars, sheetVars, runVars>>
vars == <<srvVars, fetchVars, obsVars, pc, mainVars, pureVars>>

\* config.json is not part of the sources; these are the values the same
\* functions take as defaults in enhanced_data_fetcher.py
DefaultConfig ==
    [invoice_status_chosen_month |->
        [month |-> 6, year |-> 2025, yearly_subscription_start_year |-> 2024],
     invoice_status_last_2_months |->
        [month1 |-> 6, month2 |-> 7, year |-> 2025,
         yearly_subscription_start_year |-> 2024],
     last_invoice_month |->
        [current_year |-> 2025, yearly_subscription_start_year |-> 2024]]

\* what the sheet holds outside the table: headers in row 1 (columns B, C, U
\* and V), the date cell A2, and cells people maintain beside the table
BaseSheet ==
    [k \in ({1} \X {2, 3, 21, 22}) \cup {<<2, 1>>, <<2, 2>>, <<3, 2>>, <<2, 22>>} |->
        IF k[1] = 1 THEN "header"
        ELSE IF k = <<2, 1>> THEN "2025-06-14"
        ELSE "manual"]

(***************************************************************************)
(* Helpers                                                                 *)
(***************************************************************************)
Min(a, b) == IF a <= b THEN a ELSE b
Max(a, b) == IF a >= b THEN a ELSE b

RECURSIVE Flatten(_)
Flatten(ss) == IF ss = <<>> THEN <<>> ELSE Head(ss) \o Flatten(Tail(ss))

Range(s) == {s[i] : i \in 1..Len(s)}

\* ids n, n-1, ..., 1
Descending(n) == [i \in 1..n |-> n + 1 - i]

(***************************************************************************)
(* The endpoint: GET {limit, page, order_by: id, ascending: 0}             *)
(* answers {data, total, last_page, next_page_url}                         *)
(***************************************************************************)
PageCount(records, per_page) == (Len(records) + per_page - 1) \div per_page

PageData(records, per_page, page) ==
    LET first == (page - 1) * per_page + 1
        last == Min(page * per_page, Len(records))
    IN  IF first > Len(records) THEN <<>> ELSE SubSeq(records, first, last)

NoResponse == [kind |-> "none", status_code |-> 0, data |-> <<>>,
               last_page |-> 0, total |-> 0, next_page_url |-> FALSE]

ServerResponse(status, page) ==
    IF status = 200
    THEN [kind |-> "response", status_code |-> 200,
          data |-> PageData(srv_records[url], srv_per_page, page),
          last_page |-> Max(1, PageCount(srv_records[url], srv_per_page)),
          total |-> Len(srv_records[url]),
          next_page_url |-> page < PageCount(srv_records[url], srv_per_page)]
    ELSE [kind |-> "response", status_code |-> status, data |-> <<>>,
          last_page |-> 0, total |-> 0, next_page_url |-> FALSE]

\* what one HTTP attempt can end in: a status code or an exception
Outcomes ==
    {[error |-> "", status_code |-> s] : s \in {200, 404, 429, 500}}
    \cup {[error |-> e, status_code |-> 0] : e \in {"Timeout", "RequestException"}}

OutcomeSeqs == [1..max_retries -> Outcomes]

(***************************************************************************)
(* make_api_request_with_retry                                             *)
(***************************************************************************)
RECURSIVE ReturningAttempt_retrying_every_failure(_, _)
\* a loop that retries after every response other than 200
ReturningAttempt_retrying_every_failure(outs, attempt) ==
    IF attempt > max_retries THEN attempt
    ELSE IF outs[attempt].error = "" /\ outs[attempt].status_code = 200 THEN attempt
    ELSE ReturningAttempt_retrying_every_failure(outs, attempt + 1)

\* the attempt (1-based) at which the loop leaves with a response, or
\* max_retries + 1 when every attempt ended in a retry
RECURSIVE ReturningAttempt(_, _)
ReturningAttempt(outs, attempt) ==
    IF attempt > max_retries THEN attempt
    ELSE LET o == outs[attempt]
         IN  IF o.error # "" THEN ReturningAttempt(outs, attempt + 1)
             ELSE IF o.status_code = 200 THEN attempt
             ELSE IF o.status_code = 429 THEN ReturningAttempt(outs, attempt + 1)
             ELSE IF o.status_code >= 500 THEN ReturningAttempt(outs, attempt + 1)
             ELSE attempt

\* the response it returns (status_code 0: None) and the attempts it issued
make_api_request_with_retry(outs) ==
    LET a == ReturningAttempt(outs, 1)
    IN  IF a > max_retries
        THEN [status_code |-> 0, attempts |-> max_retries]
        ELSE [status_code |-> outs[a].status_code, attempts |-> a]

\* every way one page request can end
RetryResults == {make_api_request_with_retry(outs) : outs \in OutcomeSeqs}

ResponseOf(r, page) ==
    IF r.status_code = 0 THEN NoResponse ELSE ServerResponse(r.status_code, page)

\* requests.Response.__bool__ is Response.ok: status below 400
Truthy(response) == response.kind = "response" /\ response.status_code < 400

\* the message read without the "if response" guard: None has no status_code
error_msg_unguarded(response) ==
    IF response.kind = "none" THEN "AttributeError" ELSE "Status code"

\* error_msg = f"Status code {response.status_code}" if response else "No response after retries"
error_msg(response) ==
    IF Truthy(response) THEN "Status code" ELSE "No response after retries"

FailKind(response) == IF response.kind = "none" THEN "exhausted" ELSE "client_error"

(***************************************************************************)
(* fetch_calendesk_data (enhanced_data_fetcher.py)                         *)
(***************************************************************************)
Return(data) ==
    /\ fpc' = "returned"
    /\ all_data' = data

\* lines 64-95: the first request, which reads the pagination info
FetchFirst ==
    /\ fetcher = "fetch_calendesk_data"
    /\ fpc = "start"
    /\ \E r \in RetryResults :
        LET response == ResponseOf(r, 1)
        IN  /\ attempts' = r.attempts
            /\ requested' = Append(requested, 1)
            /\ IF response.kind = "none" \/ response.status_code # 200
               THEN /\ Return(<<>>)
                    /\ exc' = (exc \/ error_msg(response) = "AttributeError")
                    /\ page_failed' = 1
                    /\ fail_kind' = FailKind(response)
                    /\ UNCHANGED <<current_page, total_pages, total_records, served, declared>>
               ELSE /\ total_pages' = response.last_page
                    /\ total_records' = response.total
                    /\ served' = Append(served, response.data)
                    /\ declared' = Append(declared, response.last_page)
                    /\ all_data' = response.data
                    /\ IF response.last_page <= 1
                       THEN fpc' = "returned" /\ UNCHANGED current_page
                       ELSE fpc' = "loop" /\ current_page' = 2
                    /\ UNCHANGED <<exc, page_failed, fail_kind>>
    /\ UNCHANGED <<url, fetcher, starting_after, srvVars, pc, mainVars, pureVars>>

\* lines 98-141: one iteration of the loop and the loop test that follows it
FetchPage ==
    /\ fetcher = "fetch_calendesk_data"
    /\ fpc = "loop"
    /\ \E r \in RetryResults :
        LET response == ResponseOf(r, current_page)
        IN  /\ attempts' = r.attempts
            /\ requested' = Append(requested, current_page)
            /\ IF Truthy(response) /\ response.status_code = 200
               THEN /\ served' = Append(served, response.data)
                    /\ declared' = Append(declared, response.last_page)
                    /\ UNCHANGED <<exc, page_failed, fail_kind>>
                    /\ IF response.data # <<>>
                       THEN LET updated_total_pages == response.last_page
                                stop == ~response.next_page_url
                                        /\ current_page >= updated_total_pages
                            IN  /\ all_data' = all_data \o response.data
                                /\ total_pages' = updated_total_pages
                                /\ current_page' = IF stop THEN current_page
                                                   ELSE current_page + 1
                                /\ fpc' = IF stop \/ current_page + 1 > updated_total_pages
                                          THEN "returned" ELSE "loop"
                       ELSE /\ Return(all_data)
                            /\ UNCHANGED <<current_page, total_pages>>
               ELSE /\ Return(all_data)
                    /\ exc' = (exc \/ error_msg(response) = "AttributeError")
                    /\ page_failed' = current_page
                    /\ fail_kind' = FailKind(response)
                    /\ UNCHANGED <<current_page, total_pages, served, declared>>
    /\ UNCHANGED <<url, fetcher, total_records, starting_after, srvVars, pc, mainVars, pureVars>>

(***************************************************************************)
(* fetch_calendesk_data_all (sharepoint_excel_update.py)                   *)
(***************************************************************************)
\* lines 492-515: one iteration of the loop and the loop test that follows it
FetchAllPage ==
    /\ fetcher = "fetch_calendesk_data_all"
    /\ fpc = "loop"
    /\ \E r \in RetryResults :
        LET response == ResponseOf(r, current_page)
        IN  /\ attempts' = r.attempts
            /\ requested' = Append(requested, current_page)
            /\ IF Truthy(response) /\ response.status_code = 200
               THEN /\ served' = Append(served, response.data)
                    /\ declared' = Append(declared, response.last_page)
                    /\ UNCHANGED <<exc, page_failed, fail_kind>>
                    /\ IF response.data # <<>>
                       THEN /\ all_data' = all_data \o response.data
                            /\ current_page' = current_page + 1
                            /\ fpc' = IF current_page + 1 <= max_pages
                                      THEN "loop" ELSE "returned"
                       ELSE /\ Return(all_data)
                            /\ UNCHANGED current_page
               ELSE /\ Return(all_data)
                    /\ exc' = (exc \/ error_msg(response) = "AttributeError")
                    /\ page_failed' = current_page
                    /\ fail_kind' = FailKind(response)
                    /\ UNCHANGED <<current_page, served, declared>>
    /\ UNCHANGED <<url, fetcher, total_pages, total_records, starting_after, srvVars, pc,
                   mainVars, pureVars>>

(***************************************************************************)
(* The environment: a record is created while a fetch is running; being    *)
(* the newest, it is served first and shifts every other record by one     *)
(***************************************************************************)
NewestId(records) == IF records = <<>> THEN 1 ELSE Head(records) + 1

ServerInsert ==
    /\ fpc \in {"start", "loop"}
    /\ srv_inserts < MaxInserts
    /\ srv_records' = [srv_records EXCEPT ![url] = <<NewestId(@)>> \o @]
    /\ srv_inserts' = srv_inserts + 1
    /\ UNCHANGED <<srv_per_page, srv_deletes, seed, fetchVars, obsVars, pc, mainVars, pureVars>>

\* a record is deleted while a fetch is running: the oldest one, so that the
\* last page loses a record and the page count may shrink
ServerDelete ==
    /\ fpc \in {"start", "loop"}
    /\ srv_deletes < MaxDeletes
    /\ srv_records[url] # <<>>
    /\ srv_records' = [srv_records EXCEPT ![url] = SubSeq(@, 1, Len(@) - 1)]
    /\ srv_deletes' = srv_deletes + 1
    /\ UNCHANGED <<srv_per_page, srv_inserts, seed, fetchVars, obsVars, pc, mainVars, pureVars>>

(***************************************************************************)
(* The caller's guard: "if not <fetched list>: ... cannot continue"        *)
(***************************************************************************)
\* a guard that also stops the run when the fetch just returned lost a page
NoData_or_failed(data) == Len(data) = 0 \/ page_failed # 0

\* a guard that lets every fetched list pass
NoData_never(data) == FALSE

NoData(data) == Len(data) = 0

GuardFetched ==
    /\ fpc = "returned"
    /\ pc = "fetching"
    /\ pc' = IF exc THEN "crashed"
             ELSE IF NoData(all_data) THEN "aborted" ELSE "continues"
    /\ UNCHANGED <<srvVars, fetchVars, obsVars, mainVars, pureVars>>

(***************************************************************************)
(* SpecFetch: one call of a paged fetcher against an endpoint              *)
(***************************************************************************)
Endpoints == {"subscriptions", "users"}

\* the parts of the state a specification does not use
MainIdle ==
    /\ config = DefaultConfig
    /\ all_subscriptions = <<>>
    /\ users_subscriptions = <<>>
    /\ df_calendesk = <<>>
    /\ df_stripe = <<>>
    /\ crm_nip_list = <<>>
    /\ df_merged = <<>>
    /\ df_dated = <<>>
    /\ df_platform = <<>>
    /\ ops = <<>>
    /\ sheet = BaseSheet
    /\ date_update_success = FALSE
    /\ subscriptions_success = FALSE
    /\ access_token = "none"
    /\ fetch_truncated = {}
    /\ crm_session = "none"

PureIdle ==
    /\ arg = 0
    /\ result = 0

NoObservation ==
    /\ requested = <<>>
    /\ served = <<>>
    /\ declared = <<>>
    /\ page_failed = 0
    /\ fail_kind = ""
    /\ attempts = 0

InitFetch ==
    /\ url \in Endpoints
    /\ \E n \in 0..MaxTotal :
          srv_records = [u \in Endpoints |-> IF u = url THEN Descending(n) ELSE <<>>]
    /\ srv_per_page \in 1..MaxPerPage
    /\ srv_inserts = 0
    /\ srv_deletes = 0
    /\ seed = 1
    /\ fetcher \in {"fetch_calendesk_data", "fetch_calendesk_data_all"}
    /\ fpc = IF fetcher = "fetch_calendesk_data" THEN "start" ELSE "loop"
    /\ current_page = 1
    /\ total_pages = 0
    /\ total_records = 0
    /\ all_data = <<>>
    /\ exc = FALSE
    /\ starting_after = 0
    /\ NoObservation
    /\ pc = "fetching"
    /\ MainIdle
    /\ PureIdle

NextFetch ==
    \/ FetchFirst
    \/ FetchPage
    \/ FetchAllPage
    \/ ServerInsert
    \/ GuardFetched

SpecFetch == InitFetch /\ [][NextFetch]_vars

\* a fetch from an endpoint that gains and loses records meanwhile
NextFetchRevised ==
    \/ FetchFirst
    \/ FetchPage
    \/ FetchAllPage
    \/ ServerInsert
    \/ ServerDelete
    \/ GuardFetched

SpecFetchRevised == InitFetch /\ [][NextFetchRevised]_vars

(***************************************************************************)
(* fetch_stripe_invoices_all (sharepoint_excel_update.py) and              *)
(* fetch_stripe_invoices (enhanced_data_fetcher.py): the cursor fetch.     *)
(* An invoice is modelled by its id; the endpoint lists the invoices after *)
(* the one named by starting_after, at most a page of them                 *)
(***************************************************************************)
\* fetch_stripe_invoices_all: max_pages = 10
stripe_max_pages == 10

StripeFetchers == {"fetch_stripe_invoices", "fetch_stripe_invoices_all"}

\* the 'data' of the answer to a request with the given cursor
StripeData(records, limit, after) ==
    LET pos == IF after = 0 THEN 0
               ELSE CHOOSE i \in 1..Len(records) : records[i] = after
    IN  SubSeq(records, pos + 1, Min(pos + limit, Len(records)))

\* a cursor taken from the first invoice of the page
last_invoice_id_of_first(invoices) == invoices[1]

\* last_invoice_id = invoices[-1]['id']
last_invoice_id(invoices) == invoices[Len(invoices)]

\* one iteration of the loop and the loop test that follows it; has_more is
\* the flag the answer carries, pages_fetched is the number of answers that
\* held invoices
FetchStripePage ==
    /\ fetcher \in StripeFetchers
    /\ fpc = "loop"
    /\ \E status_code \in {200, 500}, has_more \in BOOLEAN :
        LET invoices == StripeData(srv_records[url], srv_per_page, starting_after)
            pages_fetched == Len(served) + 1
        IN  /\ requested' = Append(requested, starting_after)
            /\ attempts' = 1
            /\ IF status_code # 200
               THEN /\ Return(all_data)
                    /\ page_failed' = Len(requested) + 1
                    /\ fail_kind' = "status"
                    /\ UNCHANGED <<served, declared, starting_after>>
               ELSE /\ served' = Append(served, invoices)
                    /\ declared' = Append(declared, has_more)
                    /\ all_data' = all_data \o invoices
                    /\ UNCHANGED <<page_failed, fail_kind>>
                    /\ IF invoices # <<>> /\ has_more
                       THEN /\ starting_after' = last_invoice_id(invoices)
                            /\ fpc' = IF fetcher = "fetch_stripe_invoices_all"
                                         /\ pages_fetched >= stripe_max_pages
                                      THEN "returned" ELSE "loop"
                       ELSE /\ fpc' = "returned"
                            /\ UNCHANGED starting_after
    /\ UNCHANGED <<url, fetcher, current_page, total_pages, total_records, exc, srvVars,
                   pc, mainVars, pureVars>>

InitStripe ==
    /\ url = "invoices"
    /\ \E n \in 0..MaxTotal :
          srv_records = [u \in Endpoints \cup {"invoices"} |->
                            IF u = "invoices" THEN Descending(n) ELSE <<>>]
    /\ srv_per_page \in 1..MaxPerPage
    /\ srv_inserts = 0
    /\ srv_deletes = 0
    /\ seed = 1
    /\ fetcher \in StripeFetchers
    /\ fpc = "loop"
    /\ current_page = 1
    /\ total_pages = 0
    /\ total_records = 0
    /\ all_data = <<>>
    /\ exc = FALSE
    /\ starting_after = 0
    /\ NoObservation
    /\ pc = "fetching"
    /\ MainIdle
    /\ PureIdle

NextStripe == FetchStripePage

SpecStripe == InitStripe /\ [][NextStripe]_vars

(***************************************************************************)
(* CRMAPIHandler.fetch_tasks_by_status: the paged fetch of the CRM tasks.  *)
(* Pages are numbered from 0; the answer to page p holds the tasks of that *)
(* page and totalPages, the number of pages                                *)
(***************************************************************************)
\* one iteration of `while True`: current_page is the local `page`, all_data
\* the local `tasks`; page_failed names the page answered with another status
FetchTasksPage ==
    /\ fetcher = "fetch_tasks_by_status"
    /\ fpc = "loop"
    /\ \E status_code \in {200, 500} :
        LET tasks_on_page == PageData(srv_records[url], srv_per_page, current_page + 1)
            answered_total == PageCount(srv_records[url], srv_per_page)
        IN  /\ requested' = Append(requested, current_page)
            /\ attempts' = 1
            /\ IF status_code # 200
               THEN /\ Return(all_data)
                    /\ page_failed' = current_page
                    /\ fail_kind' = "status"
                    /\ UNCHANGED <<current_page, total_pages, served, declared>>
               ELSE /\ all_data' = all_data \o tasks_on_page
                    /\ total_pages' = answered_total
                    /\ served' = Append(served, tasks_on_page)
                    /\ declared' = Append(declared, answered_total)
                    /\ UNCHANGED <<page_failed, fail_kind>>
                    /\ IF current_page >= answered_total
                       THEN fpc' = "returned" /\ UNCHANGED current_page
                       ELSE fpc' = "loop" /\ current_page' = current_page + 1
    /\ UNCHANGED <<url, fetcher, total_records, exc, starting_after, srvVars, pc,
                   mainVars, pureVars>>

InitCrm ==
    /\ url = "tasks"
    /\ \E n \in 0..MaxTotal :
          srv_records = [u \in Endpoints \cup {"tasks"} |->
                            IF u = "tasks" THEN Descending(n) ELSE <<>>]
    /\ srv_per_page \in 1..MaxPerPage
    /\ srv_inserts = 0
    /\ srv_deletes = 0
    /\ seed = 1
    /\ fetcher = "fetch_tasks_by_status"
    /\ fpc = "loop"
    /\ current_page = 0
    /\ total_pages = 0
    /\ total_records = 0
    /\ all_data = <<>>
    /\ exc = FALSE
    /\ starting_after = 0
    /\ NoObservation
    /\ pc = "fetching"
    /\ MainIdle
    /\ PureIdle

NextCrm ==
    \/ FetchTasksPage
    \/ ServerInsert

SpecCrm == InitCrm /\ [][NextCrm]_vars

(***************************************************************************)
(* Values                                                                  *)
(***************************************************************************)
\* a nullable value: Null (None / NaN / NaT) or Some(v)
Null == <<>>
Some(v) == <<v>>

\* characters of a text whose digits matter
Digits == <<"0", "1", "2", "3", "4", "5", "6", "7", "8", "9">>
IsDigit(c) == \E i \in 1..10 : Digits[i] = c
DigitValue(c) == (CHOOSE i \in 1..10 : Digits[i] = c) - 1

\* str(n) for n >= 0
RECURSIVE str_int(_)
str_int(n) == IF n < 10 THEN <<Digits[n + 1]>>
              ELSE Append(str_int(n \div 10), Digits[(n % 10) + 1])

\* int(s) for a text of digits
RECURSIVE int_str(_)
int_str(s) == IF s = <<>> THEN 0
              ELSE int_str(SubSeq(s, 1, Len(s) - 1)) * 10 + DigitValue(s[Len(s)])

\* s.isdigit()
isdigit(s) == s # <<>> /\ \A i \in 1..Len(s) : IsDigit(s[i])

\* s.strip()
RECURSIVE lstrip(_)
lstrip(s) == IF s # <<>> /\ Head(s) = " " THEN lstrip(Tail(s)) ELSE s
RECURSIVE rstrip(_)
rstrip(s) == IF s # <<>> /\ s[Len(s)] = " " THEN rstrip(SubSeq(s, 1, Len(s) - 1)) ELSE s
strip(s) == rstrip(lstrip(s))

\* a tax identifier cell: NaN, an integer or a text
NipNaN == [type |-> "nan", i |-> 0, s |-> <<>>]
NipInt(n) == [type |-> "int", i |-> n, s |-> <<>>]
NipStr(t) == [type |-> "str", i |-> 0, s |-> t]

\* a source timestamp: absent, an ISO timestamp (hour t, UTC) or unparsable
TsNull == [k |-> "null", t |-> 0]
TsIso(t) == [k |-> "iso", t |-> t]
TsBad == [k |-> "bad", t |-> 0]

(***************************************************************************)
(* The records the endpoints hold                                          *)
(***************************************************************************)
excluded_subscription_ids == {260, 231, 169, 157, 140, 92, 42, 9, 7}
excluded_user_ids == {9771, 9799, 10735, 9817, 100, 12113, 10860, 12216, 7185,
                      12218, 8819, 10635, 7921, 14480, 15416}

\* what the "subscriptions" endpoint may hold: plan 1 and the excluded plan 7
PlanServers == {<<>>, <<1>>, <<7>>, <<7, 1>>}

PlanIntervals == <<Some("month"), Some("year"), Null>>

\* the plan-metadata record with this id
PlanRecord(id) ==
    [id |-> id, price_recurring_interval |-> PlanIntervals[((seed + id) % 3) + 1]]

BaseUser ==
    [subscription_id |-> 1, status |-> "active", user_id |-> 5,
     created_at |-> TsIso(10), ends_at |-> TsNull, canceled_at |-> TsNull,
     stripe_subscription_id |-> Some("sub_A"), tax_number |-> NipNaN,
     subscription_name |-> "Pakiet", user_name |-> "Jan Kowalski",
     user_email |-> "jan@example.com", phone |-> Some("+48100200300"),
     address_name |-> Null]

Statuses == <<"active", "canceled", "incomplete">>
EndsAts == <<TsNull, TsIso(20), TsIso(90), TsBad>>
CanceledAts == <<TsNull, TsIso(15), TsBad>>
TaxNumbers == <<NipStr(<<>>),
                NipStr(<<"1", "2", "3", "4", "5", "6", "7", "8", "9", "0">>),
                NipStr(<<"1", "2", "3", "-", "4", "5">>),
                NipStr(<<" ", "0", "0", "4", "2", " ">>)>>

\* plan reference x status x customer
FilterVariant(i) ==
    [BaseUser EXCEPT !.subscription_id = IF (i - 1) % 2 = 0 THEN 1 ELSE 7,
                     !.status = Statuses[(((i - 1) \div 2) % 3) + 1],
                     !.user_id = IF (i - 1) \div 6 = 0 THEN 5 ELSE 100]

\* expiration x cancellation
DateVariant(i) ==
    [BaseUser EXCEPT !.status = "canceled",
                     !.ends_at = EndsAts[((i - 1) \div 3) + 1],
                     !.canceled_at = CanceledAts[((i - 1) % 3) + 1]]

OtherVariant(i) ==
    IF i <= 4 THEN [BaseUser EXCEPT !.tax_number = TaxNumbers[i],
                                    !.address_name = Some("Firma")]
    ELSE IF i = 5 THEN [BaseUser EXCEPT !.stripe_subscription_id = Null]
    ELSE IF i = 6 THEN [BaseUser EXCEPT !.stripe_subscription_id = Some(""),
                                        !.phone = Null]
    ELSE [BaseUser EXCEPT !.created_at = TsBad]

\* the attribute combinations a customer-subscription record is drawn from
UserUniverse ==
    [i \in 1..12 |-> FilterVariant(i)] \o [i \in 1..12 |-> DateVariant(i)]
    \o [i \in 1..7 |-> OtherVariant(i)]

\* the customer-subscription record with this id: consecutive ids carry
\* consecutive combinations, starting at the one the seed selects
UserRecord(id) ==
    LET u == UserUniverse[((seed + id - 2) % Len(UserUniverse)) + 1]
    IN  [id |-> id, subscription_id |-> u.subscription_id, status |-> u.status,
         user_id |-> u.user_id, created_at |-> u.created_at, ends_at |-> u.ends_at,
         canceled_at |-> u.canceled_at,
         stripe_subscription_id |-> u.stripe_subscription_id,
         tax_number |-> u.tax_number, subscription_name |-> u.subscription_name,
         user_name |-> u.user_name, user_email |-> u.user_email,
         phone |-> u.phone, address_name |-> u.address_name]

\* pd.json_normalize of a fetched list
json_normalize_subscriptions(data) == [i \in 1..Len(data) |-> PlanRecord(data[i])]
json_normalize_users(data) == [i \in 1..Len(data) |-> UserRecord(data[i])]

(***************************************************************************)
(* The processing of the platform data (main, sharepoint_excel_update.py)  *)
(* Texts are written without their diacritics.                             *)
(***************************************************************************)
\* one row of pd.merge: the customer-subscription record l with the
\* plan-metadata record r, or with none
MergedRow(l, r) ==
    [id_x |-> l.id, subscription_id |-> l.subscription_id, status |-> l.status,
     user_id |-> l.user_id, created_at |-> l.created_at, ends_at |-> l.ends_at,
     canceled_at |-> l.canceled_at,
     stripe_subscription_id |-> l.stripe_subscription_id,
     tax_number |-> l.tax_number, subscription_name |-> l.subscription_name,
     user_name |-> l.user_name, user_email |-> l.user_email,
     address_name |-> l.address_name,
     user_default_phone_e164 |-> IF l.phone = Null THEN "" ELSE l.phone[1],
     id_y |-> IF r = Null THEN Null ELSE Some(r[1].id),
     price_recurring_interval |->
         IF r = Null THEN Null ELSE r[1].price_recurring_interval]

\* the rows of the right table whose key equals the left row's key
Matches(l, right) == SelectSeq(right, LAMBDA r : r.id = l.subscription_id)

RowsOfLeft(l, right) ==
    LET m == Matches(l, right)
    IN  IF m = <<>> THEN <<MergedRow(l, Null)>>
        ELSE [k \in 1..Len(m) |-> MergedRow(l, Some(m[k]))]

\* the same with how='inner': a left row without a match yields no row
merge_inner(left, right) ==
    Flatten([i \in 1..Len(left) |->
                LET m == Matches(left[i], right)
                IN  [k \in 1..Len(m) |-> MergedRow(left[i], Some(m[k]))]])

\* pd.merge(left, right, left_on='subscription_id', right_on='id', how='left')
merge(left, right) == Flatten([i \in 1..Len(left) |-> RowsOfLeft(left[i], right)])

\* Series.isin(values) of a nullable cell
isin(cell, values) == cell # Null /\ cell[1] \in values

\* the mask without its status term
Kept_any_status(row) ==
    /\ ~isin(row.id_y, excluded_subscription_ids)
    /\ ~(row.user_id \in excluded_user_ids)

\* the mask of the filter
Kept(row) ==
    /\ ~isin(row.id_y, excluded_subscription_ids)
    /\ row.status \in {"active", "canceled"}
    /\ ~(row.user_id \in excluded_user_ids)

filter(df) == SelectSeq(df, Kept)

\* Series.replace(mapping) of one cell
replace_status(v) ==
    IF v = "canceled" THEN "anulowana" ELSE IF v = "active" THEN "aktywna" ELSE v

replace_interval(v) ==
    IF v = Some("year") THEN Some("roczny")
    ELSE IF v = Some("month") THEN Some("miesieczny") ELSE v

\* the transformations, the selection of the columns and their renaming
CalendeskRow(row) ==
    [ID_Subskrypcji_Klienta |-> row.id_x,
     ID_Subskrypcji |-> row.id_y,
     Status |-> replace_status(row.status),
     Data_zakupu |-> row.created_at,
     Pakiet |-> row.subscription_name,
     Data_wygasniecia |-> row.ends_at,
     Data_anulowania |-> row.canceled_at,
     ID_Klienta |-> row.user_id,
     Imie_i_Nazwisko_Klienta |-> row.user_name,
     Email |-> row.user_email,
     Typ_pakietu |-> replace_interval(row.price_recurring_interval),
     ID_Suba_STRIPE |-> row.stripe_subscription_id,
     NIP |-> row.tax_number,
     Nazwa_Firmy |-> IF row.address_name = Null THEN "" ELSE row.address_name[1],
     Telefon |-> row.user_default_phone_e164]

transform(df) == [i \in 1..Len(df) |-> CalendeskRow(df[i])]

\* hours added to every parsed timestamp
DateOffsetHours == 2

\* pd.to_datetime(cell, errors='coerce').tz_localize(None) + DateOffset(hours=2)
to_datetime_coerce(ts) ==
    IF ts.k = "iso" THEN Some(ts.t + DateOffsetHours) ELSE Null

\* pd.to_datetime(column) without errors='coerce' raises on an unparsable cell
to_datetime_raises(df) == \E i \in 1..Len(df) : df[i].Data_zakupu.k = "bad"

convert_dates(df) ==
    [i \in 1..Len(df) |->
        [df[i] EXCEPT !.Data_zakupu = to_datetime_coerce(@),
                      !.Data_anulowania = to_datetime_coerce(@),
                      !.Data_wygasniecia = to_datetime_coerce(@)]]

\* the mask of update_cancellation_dates
mask(row) == row.Data_anulowania = Null /\ row.Data_wygasniecia # Null

\* the table left as the date conversion produced it
update_cancellation_dates_skipped(df) == df

update_cancellation_dates(df) ==
    [i \in 1..Len(df) |->
        IF mask(df[i]) THEN [df[i] EXCEPT !.Data_anulowania = df[i].Data_wygasniecia]
        ELSE df[i]]

\* str(nip_value) of a cell that is not NaN
str_nip(nip) == IF nip.type = "int" THEN str_int(nip.i) ELSE nip.s

process_nip(nip_value) ==
    IF nip_value.type = "nan" \/ nip_value = NipStr(<<>>) THEN nip_value
    ELSE LET nip_str == strip(str_nip(nip_value))
         IN  IF isdigit(nip_str) THEN NipInt(int_str(nip_str)) ELSE NipStr(nip_str)

apply_process_nip(df) ==
    [i \in 1..Len(df) |-> [df[i] EXCEPT !.NIP = process_nip(@)]]

(***************************************************************************)
(* The custom columns                                                      *)
(***************************************************************************)
\* an invoice of the payment processor, as the columns the calculations read
Invoice(sub, y, m, d, status) ==
    [ID_Subskrypcji |-> sub, Data_Utworzenia |-> [year |-> y, month |-> m, day |-> d],
     Status_Faktury |-> status]

DaysInMonth(y, m) ==
    IF m \in {4, 6, 9, 11} THEN 30
    ELSE IF m # 2 THEN 31
    ELSE IF y % 4 = 0 /\ (y % 100 # 0 \/ y % 400 = 0) THEN 29 ELSE 28

\* datetime(y, m, d) raises ValueError for a day the month does not have
dt_raises(y, m, d) == m < 1 \/ m > 12 \/ d < 1 \/ d > DaysInMonth(y, m)

dt(y, m, d) == [year |-> y, month |-> m, day |-> d]

\* a <= b for two dates
DateLeq(a, b) ==
    \/ a.year < b.year
    \/ a.year = b.year /\ a.month < b.month
    \/ a.year = b.year /\ a.month = b.month /\ a.day <= b.day

\* pd.isna(row['ID Suba STRIPE']) or row['ID Suba STRIPE'] == ''
NoStripeId(row) == row.ID_Suba_STRIPE = Null \/ row.ID_Suba_STRIPE = Some("")

\* a calculation that takes the last matching invoice of the table
calculate_invoice_status_chosen_month_last(row, invoices_df) ==
    IF NoStripeId(row) THEN "Nie mozna okreslic"
    ELSE LET c == config.invoice_status_chosen_month
             of_sub == SelectSeq(invoices_df,
                          LAMBDA v : v.ID_Subskrypcji = row.ID_Suba_STRIPE[1])
             monthly == SelectSeq(of_sub,
                          LAMBDA v : /\ v.Data_Utworzenia.month = c.month
                                     /\ v.Data_Utworzenia.year = c.year)
             yearly == SelectSeq(of_sub,
                          LAMBDA v :
                            /\ DateLeq(dt(c.yearly_subscription_start_year, c.month, 1),
                                       v.Data_Utworzenia)
                            /\ DateLeq(v.Data_Utworzenia, dt(c.year, c.month, 30)))
         IN  IF row.Typ_pakietu = Some("miesieczny") /\ monthly # <<>>
             THEN monthly[Len(monthly)].Status_Faktury
             ELSE IF row.Typ_pakietu = Some("roczny") /\ yearly # <<>>
             THEN yearly[Len(yearly)].Status_Faktury
             ELSE ""

calculate_invoice_status_chosen_month(row, invoices_df) ==
    IF NoStripeId(row) THEN "Nie mozna okreslic"
    ELSE LET c == config.invoice_status_chosen_month
             of_sub == SelectSeq(invoices_df,
                          LAMBDA v : v.ID_Subskrypcji = row.ID_Suba_STRIPE[1])
             monthly == SelectSeq(of_sub,
                          LAMBDA v : /\ v.Data_Utworzenia.month = c.month
                                     /\ v.Data_Utworzenia.year = c.year)
             yearly == SelectSeq(of_sub,
                          LAMBDA v :
                            /\ DateLeq(dt(c.yearly_subscription_start_year, c.month, 1),
                                       v.Data_Utworzenia)
                            /\ DateLeq(v.Data_Utworzenia, dt(c.year, c.month, 30)))
         IN  IF row.Typ_pakietu = Some("miesieczny") /\ monthly # <<>>
             THEN monthly[1].Status_Faktury
             ELSE IF row.Typ_pakietu = Some("roczny") /\ yearly # <<>>
             THEN yearly[1].Status_Faktury
             ELSE ""

\* the rows for which building the dates of the chosen-month window raises
chosen_month_raises(row) ==
    LET c == config.invoice_status_chosen_month
    IN  /\ ~NoStripeId(row)
        /\ row.Typ_pakietu = Some("roczny")
        /\ \/ dt_raises(c.yearly_subscription_start_year, c.month, 1)
           \/ dt_raises(c.year, c.month, 30)

\* a calculation that counts an invoice of any payment status
calculate_invoice_status_last_2_months_any_status(row, invoices_df) ==
    IF NoStripeId(row) THEN "Nie mozna okreslic"
    ELSE LET c == config.invoice_status_last_2_months
             of_sub == SelectSeq(invoices_df,
                          LAMBDA v : v.ID_Subskrypcji = row.ID_Suba_STRIPE[1])
             monthly == SelectSeq(of_sub,
                          LAMBDA v :
                            /\ DateLeq(dt(c.year, c.month1, 1), v.Data_Utworzenia)
                            /\ DateLeq(v.Data_Utworzenia, dt(c.year, c.month2, 31)))
             yearly == SelectSeq(of_sub,
                          LAMBDA v :
                            /\ DateLeq(dt(c.yearly_subscription_start_year, c.month2, 1),
                                       v.Data_Utworzenia)
                            /\ DateLeq(v.Data_Utworzenia, dt(c.year, c.month2, 31)))
         IN  IF row.Typ_pakietu = Some("miesieczny")
             THEN (IF monthly # <<>> THEN "paid" ELSE "")
             ELSE IF row.Typ_pakietu = Some("roczny")
             THEN (IF yearly # <<>> THEN "paid" ELSE "")
             ELSE ""

calculate_invoice_status_last_2_months(row, invoices_df) ==
    IF NoStripeId(row) THEN "Nie mozna okreslic"
    ELSE LET c == config.invoice_status_last_2_months
             paid == SelectSeq(invoices_df,
                        LAMBDA v : /\ v.ID_Subskrypcji = row.ID_Suba_STRIPE[1]
                                   /\ v.Status_Faktury = "paid")
             monthly == SelectSeq(paid,
                          LAMBDA v :
                            /\ DateLeq(dt(c.year, c.month1, 1), v.Data_Utworzenia)
                            /\ DateLeq(v.Data_Utworzenia, dt(c.year, c.month2, 31)))
             yearly == SelectSeq(paid,
                          LAMBDA v :
                            /\ DateLeq(dt(c.yearly_subscription_start_year, c.month2, 1),
                                       v.Data_Utworzenia)
                            /\ DateLeq(v.Data_Utworzenia, dt(c.year, c.month2, 31)))
         IN  IF row.Typ_pakietu = Some("miesieczny")
             THEN (IF monthly # <<>> THEN "paid" ELSE "")
             ELSE IF row.Typ_pakietu = Some("roczny")
             THEN (IF yearly # <<>> THEN "paid" ELSE "")
             ELSE ""

last_2_months_raises(row) ==
    LET c == config.invoice_status_last_2_months
    IN  /\ ~NoStripeId(row)
        /\ \/ /\ row.Typ_pakietu = Some("miesieczny")
              /\ dt_raises(c.year, c.month1, 1) \/ dt_raises(c.year, c.month2, 31)
           \/ /\ row.Typ_pakietu = Some("roczny")
              /\ \/ dt_raises(c.yearly_subscription_start_year, c.month2, 1)
                 \/ dt_raises(c.year, c.month2, 31)

polish_months ==
    <<"styczen", "luty", "marzec", "kwiecien", "maj", "czerwiec", "lipiec",
      "sierpien", "wrzesien", "pazdziernik", "listopad", "grudzien">>

\* Series.max() of the creation dates of a non-empty table
MaxDate(df) ==
    LET i == CHOOSE i \in 1..Len(df) :
                \A j \in 1..Len(df) : DateLeq(df[j].Data_Utworzenia, df[i].Data_Utworzenia)
    IN  df[i].Data_Utworzenia

calculate_last_invoice_month(row, invoices_df) ==
    IF NoStripeId(row) THEN ""
    ELSE LET c == config.last_invoice_month
             paid == SelectSeq(invoices_df,
                        LAMBDA v : /\ v.ID_Subskrypcji = row.ID_Suba_STRIPE[1]
                                   /\ v.Status_Faktury = "paid")
             filtered_invoices ==
                IF row.Typ_pakietu = Some("miesieczny")
                THEN SelectSeq(paid, LAMBDA v : v.Data_Utworzenia.year = c.current_year)
                ELSE IF row.Typ_pakietu = Some("roczny")
                THEN SelectSeq(paid,
                        LAMBDA v : DateLeq(dt(c.yearly_subscription_start_year, 1, 1),
                                           v.Data_Utworzenia))
                ELSE paid
         IN  IF filtered_invoices # <<>>
             THEN polish_months[MaxDate(filtered_invoices).month]
             ELSE ""

\* the value under 'ID Subskrypcji Klienta': NaN/None, an integer or a text
IdNaN == [k |-> "nan", i |-> 0, s |-> ""]
IdInt(n) == [k |-> "int", i |-> n, s |-> ""]
IdStr(t) == [k |-> "str", i |-> 0, s |-> t]

\* the value under 'Data wygasniecia': NaT/None, a timestamp at hour t, or a
\* text; a text is the empty one, one that '%Y-%m-%d %H:%M:%S' parses to hour
\* t, one that '%Y-%m-%d' parses to hour t, or one that neither format parses
ExpNaT == [k |-> "nat", form |-> "", t |-> 0]
ExpTs(t) == [k |-> "timestamp", form |-> "", t |-> t]
ExpStr(form, t) == [k |-> "str", form |-> form, t |-> t]

\* dt.strptime(text, format) raises ValueError
strptime_raises(text, format) == text.form # format

strptime(text, format) == text.t

\* a classification that tests 'blank or later than now' first
status3_active_first(subscription_client_id, expiration_date, current_datetime) ==
    IF subscription_client_id.k = "nan" \/ subscription_client_id = IdStr("")
    THEN "Nieokreslony"
    ELSE LET blank == \/ expiration_date.k = "nat"
                      \/ /\ expiration_date.k = "str"
                         /\ expiration_date.form \notin {"%Y-%m-%d %H:%M:%S", "%Y-%m-%d"}
         IN  IF blank \/ expiration_date.t > current_datetime THEN "Aktywna"
             ELSE "Anulowana"

\* lines 801-836, on the two values the function reads from the row
status3_of(subscription_client_id, expiration_date, current_datetime) ==
    IF subscription_client_id.k = "nan" \/ subscription_client_id = IdStr("")
    THEN "Nieokreslony"
    ELSE LET blank == expiration_date.k = "nat" \/ expiration_date = ExpStr("", 0)
             is_str == ~blank /\ expiration_date.k = "str"
             first == "%Y-%m-%d %H:%M:%S"
             second == "%Y-%m-%d"
             expiration_date_is_blank ==
                \/ blank
                \/ /\ is_str
                   /\ strptime_raises(expiration_date, first)
                   /\ strptime_raises(expiration_date, second)
             converted ==
                IF is_str /\ ~strptime_raises(expiration_date, first)
                THEN strptime(expiration_date, first)
                ELSE IF is_str /\ ~strptime_raises(expiration_date, second)
                THEN strptime(expiration_date, second)
                ELSE expiration_date.t
         IN  IF ~expiration_date_is_blank /\ converted > current_datetime
             THEN "Anulowana (aktywna)"
             ELSE IF expiration_date_is_blank \/ converted > current_datetime
             THEN "Aktywna"
             ELSE IF ~expiration_date_is_blank /\ converted <= current_datetime
             THEN "Anulowana"
             ELSE "Nieokreslony"

\* the identifier of a platform row is an integer; its expiration date is a
\* timestamp or NaT
calculate_status3(row, current_datetime) ==
    status3_of(IdInt(row.ID_Subskrypcji_Klienta),
               IF row.Data_wygasniecia = Null THEN ExpNaT
               ELSE ExpTs(row.Data_wygasniecia[1]),
               current_datetime)

\* the three invoice columns and Status3 added to a row
WithCustomColumns(row, invoices_df, now) ==
    [ID_Subskrypcji_Klienta |-> row.ID_Subskrypcji_Klienta,
     ID_Subskrypcji |-> row.ID_Subskrypcji,
     Status |-> row.Status,
     Data_zakupu |-> row.Data_zakupu,
     Pakiet |-> row.Pakiet,
     Data_wygasniecia |-> row.Data_wygasniecia,
     Data_anulowania |-> row.Data_anulowania,
     ID_Klienta |-> row.ID_Klienta,
     Imie_i_Nazwisko_Klienta |-> row.Imie_i_Nazwisko_Klienta,
     Email |-> row.Email,
     Typ_pakietu |-> row.Typ_pakietu,
     ID_Suba_STRIPE |-> row.ID_Suba_STRIPE,
     NIP |-> row.NIP,
     Nazwa_Firmy |-> row.Nazwa_Firmy,
     Telefon |-> row.Telefon,
     Invoice_status_in_chosen_month |->
        IF invoices_df # <<>>
        THEN calculate_invoice_status_chosen_month(row, invoices_df) ELSE "",
     Invoice_status_in_last_2_months |->
        IF invoices_df # <<>>
        THEN calculate_invoice_status_last_2_months(row, invoices_df) ELSE "",
     Last_invoice_month |->
        IF invoices_df # <<>>
        THEN calculate_last_invoice_month(row, invoices_df) ELSE "",
     Status3 |-> calculate_status3(row, now)]

custom_columns(df, invoices_df, now) ==
    [i \in 1..Len(df) |-> WithCustomColumns(df[i], invoices_df, now)]

\* a calculation that cannot do without invoices
custom_columns_raise_without_invoices(df, invoices_df) ==
    \/ invoices_df = <<>>
    \/ \E i \in 1..Len(df) : chosen_month_raises(df[i]) \/ last_2_months_raises(df[i])

custom_columns_raise(df, invoices_df) ==
    /\ invoices_df # <<>>
    /\ \E i \in 1..Len(df) : chosen_month_raises(df[i]) \/ last_2_months_raises(df[i])

(***************************************************************************)
(* The CRM records                                                         *)
(***************************************************************************)
\* the value under client.company.nip of a detailed task: a number (its
\* integer part i, and whether a fractional part follows), a text s, None,
\* or no such key
CrmInt(n) == [type |-> "int", i |-> n, frac |-> FALSE, s |-> <<>>]
CrmFloat(n, frac) == [type |-> "float", i |-> n, frac |-> frac, s |-> <<>>]
CrmStr(t) == [type |-> "str", i |-> 0, frac |-> FALSE, s |-> t]
CrmNone == [type |-> "none", i |-> 0, frac |-> FALSE, s |-> <<>>]
CrmMissing == [type |-> "missing", i |-> 0, frac |-> FALSE, s |-> <<>>]

\* a detailed task: whether 'client' and 'company' are objects, and the nip
Task(client, company, nip) == [client |-> client, company |-> company, nip |-> nip]

\* the fixed width of a tax identifier
NipWidth == 10

\* s.zfill(width)
RECURSIVE zfill(_, _)
zfill(s, width) == IF Len(s) >= width THEN s ELSE zfill(<<"0">> \o s, width)

\* isinstance(nip, (int, float)) and nip > 0
IsPositiveNumber(nip) ==
    /\ nip.type \in {"int", "float"}
    /\ nip.i > 0 \/ (nip.i = 0 /\ nip.frac)

\* the same with a text padded like a number
extract_client_nip_padding_text(task) ==
    IF task.client = "dict" /\ task.company = "dict"
    THEN LET nip == IF task.nip.type = "missing" THEN CrmStr(<<>>) ELSE task.nip
         IN  IF IsPositiveNumber(nip) THEN zfill(str_int(nip.i), NipWidth)
             ELSE IF nip.type = "str" /\ nip.s # <<>> THEN zfill(nip.s, NipWidth)
             ELSE <<>>
    ELSE <<>>

extract_client_nip(task) ==
    IF task.client = "dict" /\ task.company = "dict"
    THEN LET nip == IF task.nip.type = "missing" THEN CrmStr(<<>>) ELSE task.nip
         IN  IF IsPositiveNumber(nip)
             THEN LET nip_str == str_int(nip.i)
                  IN  IF Len(nip_str) < NipWidth THEN zfill(nip_str, NipWidth)
                      ELSE nip_str
             ELSE IF nip.type = "str" /\ nip.s # <<>> THEN nip.s
             ELSE <<>>
    ELSE <<>>

\* what GET /tasks/{id} answers for one task: the detailed task, or a failure
Detail(ok, task) == [ok |-> ok, task |-> task]

\* the loop of fetch_crm_data over the tasks: the non-empty identifiers of
\* the tasks whose details could be fetched, in order
RECURSIVE nip_list_of(_)
nip_list_of(details) ==
    IF details = <<>> THEN <<>>
    ELSE LET d == Head(details)
             nip == IF d.ok THEN extract_client_nip(d.task) ELSE <<>>
         IN  (IF nip # <<>> THEN <<nip>> ELSE <<>>) \o nip_list_of(Tail(details))

fetch_crm_data(session_ok, project_ok, status_found, details) ==
    IF ~session_ok \/ ~project_ok \/ ~status_found \/ details = <<>> THEN <<>>
    ELSE nip_list_of(details)

CrmRecord(nip) ==
    [ID_Subskrypcji_Klienta |-> 0,
     ID_Subskrypcji |-> Some(0),
     Status |-> "",
     Data_zakupu |-> Null,
     Pakiet |-> "UMOWA TRADYCYJNA",
     Data_wygasniecia |-> Null,
     Data_anulowania |-> Null,
     ID_Klienta |-> 0,
     Imie_i_Nazwisko_Klienta |-> "",
     Email |-> "",
     Typ_pakietu |-> Some(""),
     ID_Suba_STRIPE |-> Some(""),
     NIP |-> NipStr(nip),
     Nazwa_Firmy |-> "",
     Telefon |-> "",
     Invoice_status_in_chosen_month |-> "",
     Invoice_status_in_last_2_months |-> "",
     Last_invoice_month |-> "",
     Status3 |-> "Nieokreslony"]

create_crm_dataframe(nip_list) == [i \in 1..Len(nip_list) |-> CrmRecord(nip_list[i])]

\* the second table put first
concat_reversed(a, b) == b \o a

\* pd.concat([a, b], ignore_index=True)
concat(a, b) == a \o b

(***************************************************************************)
(* The sheet writer                                                        *)
(***************************************************************************)
Letters == <<"A", "B", "C", "D", "E", "F", "G", "H", "I", "J", "K", "L", "M",
             "N", "O", "P", "Q", "R", "S", "T", "U", "V", "W", "X", "Y", "Z">>

\* the loop of get_column_letter
RECURSIVE column_letter_loop(_, _)
column_letter_loop(col_num, res) ==
    IF col_num > 0
    THEN LET n == col_num - 1
         IN  column_letter_loop(n \div 26, <<Letters[(n % 26) + 1]>> \o res)
    ELSE res

\* ordinary base 26 with A as the digit zero: the loop without "col_num -= 1"
RECURSIVE column_letter_loop_plain(_, _)
column_letter_loop_plain(col_num, res) ==
    IF col_num > 0
    THEN column_letter_loop_plain(col_num \div 26, <<Letters[(col_num % 26) + 1]>> \o res)
    ELSE res

get_column_letter_plain(col_num) == column_letter_loop_plain(col_num, <<>>)

get_column_letter(col_num) == column_letter_loop(col_num, <<>>)

LetterValue(c) == CHOOSE i \in 1..26 : Letters[i] = c

\* the value of a string over A..Z read as a bijective base-26 numeral
RECURSIVE ColumnValue(_)
ColumnValue(s) ==
    IF s = <<>> THEN 0
    ELSE ColumnValue(SubSeq(s, 1, Len(s) - 1)) * 26 + LetterValue(s[Len(s)])

\* an A1 address "{start_col}{start_row}:{end_col}{end_row}"
Address(start_col, start_row, end_col, end_row) ==
    [start_col |-> start_col, start_row |-> start_row,
     end_col |-> end_col, end_row |-> end_row]

\* the column range the writer passes for the subscriptions sheet: "C:U"
column_range == [start_col |-> <<"C">>, end_col |-> <<"U">>]

\* the last row a clear reaches
ClearLastRow == 15000

\* the column the table starts at (column C)
start_col_num == 3

\* a clear of the rows the table at hand will occupy and no more
clear_range_of_table == Address(<<"C">>, 2, <<"U">>, Len(df_calendesk) + 1)

clear_range == Address(column_range.start_col, 2, column_range.end_col, ClearLastRow)

\* len(data_df.columns) of a table that has rows
num_cols(data_df) == Cardinality(DOMAIN data_df[1])

\* the address for a sheet other than the subscriptions sheet, from column A
range_address_from_A(data_df) ==
    Address(<<"A">>, 2, get_column_letter(num_cols(data_df)), Len(data_df) + 1)

\* an appending writer: the table goes below the rows its earlier bulk writes
\* addressed
range_address_below_written(data_df) ==
    LET written == {ops[i].address.end_row :
                       i \in {j \in 1..Len(ops) :
                                 ops[j].by = "update_excel_worksheet_directly"}}
        last == IF written = {} THEN 1
                ELSE CHOOSE r \in written : \A q \in written : q <= r
    IN  Address(<<"C">>, last + 1, <<"U">>, last + Len(data_df))

\* an address that counts the header row among the rows of the table
range_address_counting_header(data_df) ==
    Address(get_column_letter(start_col_num), 2,
            get_column_letter(start_col_num + num_cols(data_df) - 1), Len(data_df) + 2)

range_address(data_df) ==
    LET num_rows == Len(data_df)
        end_col_num == start_col_num + num_cols(data_df) - 1
    IN  Address(get_column_letter(start_col_num), 2,
                get_column_letter(end_col_num), num_rows + 1)

\* the single cell "A2"
date_cell == Address(<<"A">>, 2, <<"A">>, 2)

\* the columns of the table, in order
Columns ==
    <<"ID_Subskrypcji_Klienta", "ID_Subskrypcji", "Status", "Data_zakupu", "Pakiet",
      "Data_wygasniecia", "Data_anulowania", "ID_Klienta", "Imie_i_Nazwisko_Klienta",
      "Email", "Typ_pakietu", "ID_Suba_STRIPE", "NIP", "Nazwa_Firmy", "Telefon",
      "Invoice_status_in_chosen_month", "Invoice_status_in_last_2_months",
      "Last_invoice_month", "Status3">>

\* value.strftime('%Y-%m-%d %H:%M:%S') of the timestamp of hour t
strftime(t) == [strftime |-> t]

\* one cell of data_values: None for NaN/NaT, the formatted text for a
\* timestamp, the value itself otherwise
data_value(row, column) ==
    LET v == row[column]
    IN  IF column \in {"Data_zakupu", "Data_wygasniecia", "Data_anulowania"}
        THEN (IF v = Null THEN Null ELSE Some(strftime(v[1])))
        ELSE IF column \in {"ID_Subskrypcji", "Typ_pakietu", "ID_Suba_STRIPE"}
        THEN v
        ELSE IF column = "NIP"
        THEN (IF v.type = "nan" THEN Null ELSE Some(v))
        ELSE Some(v)

\* data_df.values.tolist() after the conversion of NaN/NaT and timestamps
data_values(data_df) ==
    [i \in 1..Len(data_df) |-> [j \in 1..Len(Columns) |-> data_value(data_df[i], Columns[j])]]

\* the cell <<row, column index>> lies in the range of the address
InAddress(k, a) ==
    /\ a.start_row <= k[1]
    /\ k[1] <= a.end_row
    /\ ColumnValue(a.start_col) <= k[2]
    /\ k[2] <= ColumnValue(a.end_col)

\* the sheet after POST range(address)/clear {"applyTo": "Contents"}
Cleared(cells, a) ==
    LET first == ColumnValue(a.start_col)
        last == ColumnValue(a.end_col)
        kept == {c \in DOMAIN cells : \/ c[1] < a.start_row
                                       \/ c[1] > a.end_row
                                       \/ c[2] < first
                                       \/ c[2] > last}
    IN  [k \in kept |-> cells[k]]

\* the sheet after PATCH range(address) {"values": values}: the value at
\* <<i, j>> goes to the cell i-1 rows and j-1 columns from the start of the
\* range; a null leaves its cell as it is
Patched(cells, a, values) ==
    LET col0 == ColumnValue(a.start_col)
        row0 == a.start_row
        body == values
        given == {p \in (1..Len(body)) \X (1..Len(body[1])) : body[p[1]][p[2]] # Null}
        written == [k \in {<<row0 + p[1] - 1, col0 + p[2] - 1>> : p \in given} |->
                       body[k[1] - row0 + 1][k[2] - col0 + 1][1]]
    IN  written @@ cells

(***************************************************************************)
(* The run: main (sharepoint_excel_update.py)                              *)
(***************************************************************************)
\* a call of fetch_calendesk_data_all(u, ...) begins
BeginFetch(u) ==
    /\ url' = u
    /\ fetcher' = "fetch_calendesk_data_all"
    /\ fpc' = "loop"
    /\ current_page' = 1
    /\ all_data' = <<>>
    /\ requested' = <<>>
    /\ served' = <<>>
    /\ declared' = <<>>
    /\ page_failed' = 0
    /\ fail_kind' = ""
    /\ attempts' = 0
    /\ UNCHANGED <<total_pages, total_records, exc, starting_after>>

\* the last call has returned: its locals are gone
EndFetch ==
    /\ fpc' = "idle"
    /\ current_page' = 1
    /\ all_data' = <<>>
    /\ requested' = <<>>
    /\ served' = <<>>
    /\ declared' = <<>>
    /\ page_failed' = 0
    /\ fail_kind' = ""
    /\ attempts' = 0
    /\ UNCHANGED <<url, fetcher, total_pages, total_records, exc, starting_after>>

\* a run that goes on to the fetches whether or not it got a token
GetToken_unchecked ==
    /\ pc = "token"
    /\ \E token \in BOOLEAN :
          access_token' = IF token THEN "acquired" ELSE "failed"
    /\ pc' = "fetch_subscriptions"
    /\ BeginFetch("subscriptions")
    /\ UNCHANGED <<srvVars, config, dataVars, sheetVars, fetch_truncated,
                   crm_session, pureVars>>

\* lines 846-855
GetToken ==
    /\ pc = "token"
    /\ \E token \in BOOLEAN :
          IF token
          THEN /\ access_token' = "acquired"
               /\ pc' = "fetch_subscriptions"
               /\ BeginFetch("subscriptions")
          ELSE /\ access_token' = "failed"
               /\ pc' = "aborted"
               /\ UNCHANGED <<fetchVars, obsVars>>
    /\ UNCHANGED <<srvVars, config, dataVars, sheetVars, fetch_truncated,
                   crm_session, pureVars>>

\* the call that has returned had fetched records and then could not fetch a
\* page that held records
Truncated ==
    IF /\ page_failed # 0
       /\ all_data # <<>>
       /\ PageData(srv_records[url], srv_per_page, page_failed) # <<>>
    THEN {url}
    ELSE {}

\* lines 855-858
StoreSubscriptions ==
    /\ pc = "fetch_subscriptions"
    /\ fpc = "returned"
    /\ all_subscriptions' = all_data
    /\ fetch_truncated' = fetch_truncated \cup Truncated
    /\ pc' = "fetch_users"
    /\ BeginFetch("users")
    /\ UNCHANGED <<srvVars, config, access_token, crm_session, users_subscriptions, df_calendesk, df_stripe,
                   crm_nip_list, df_merged, df_dated, df_platform, sheetVars, pureVars>>

\* lines 858-872
StoreUsers ==
    /\ pc = "fetch_users"
    /\ fpc = "returned"
    /\ users_subscriptions' = all_data
    /\ fetch_truncated' = fetch_truncated \cup Truncated
    /\ pc' = IF NoData(all_subscriptions) \/ NoData(all_data) THEN "aborted"
             ELSE "merge"
    /\ EndFetch
    /\ UNCHANGED <<srvVars, config, access_token, crm_session, all_subscriptions, df_calendesk,
                   df_stripe, crm_nip_list, df_merged, df_dated, df_platform,
                   sheetVars, pureVars>>

\* lines 875-891
MergeCalendesk ==
    /\ pc = "merge"
    /\ LET subscriptions_df == json_normalize_subscriptions(all_subscriptions)
           users_subscriptions_df == json_normalize_users(users_subscriptions)
       IN  /\ df_calendesk' = merge(users_subscriptions_df, subscriptions_df)
           /\ df_merged' = df_calendesk'
    /\ pc' = "filter"
    /\ UNCHANGED <<srvVars, fetchVars, obsVars, config, runVars, all_subscriptions,
                   users_subscriptions, df_stripe, crm_nip_list, df_dated, df_platform,
                   sheetVars, pureVars>>

\* lines 893-930
FilterCalendesk ==
    /\ pc = "filter"
    /\ df_calendesk' = transform(filter(df_calendesk))
    /\ pc' = "dates"
    /\ UNCHANGED <<srvVars, fetchVars, obsVars, config, runVars, all_subscriptions,
                   users_subscriptions, df_stripe, crm_nip_list, df_merged, df_dated,
                   df_platform, sheetVars, pureVars>>

\* lines 932-936, and 966-968 when the conversion raises
ConvertDates ==
    /\ pc = "dates"
    /\ IF to_datetime_raises(df_calendesk)
       THEN /\ pc' = "aborted"
            /\ UNCHANGED <<df_calendesk, df_dated>>
       ELSE /\ df_calendesk' = convert_dates(df_calendesk)
            /\ df_dated' = df_calendesk'
            /\ pc' = "cancellation"
    /\ UNCHANGED <<srvVars, fetchVars, obsVars, config, runVars, all_subscriptions,
                   users_subscriptions, df_stripe, crm_nip_list, df_merged,
                   df_platform, sheetVars, pureVars>>

\* lines 938-962
UpdateCancellation ==
    /\ pc = "cancellation"
    /\ df_calendesk' = apply_process_nip(update_cancellation_dates(df_calendesk))
    /\ pc' = "stripe"
    /\ UNCHANGED <<srvVars, fetchVars, obsVars, config, runVars, all_subscriptions,
                   users_subscriptions, df_stripe, crm_nip_list, df_merged, df_dated,
                   df_platform, sheetVars, pureVars>>

\* what the payment processor's invoice list may hold
StripeTables ==
    {<<>>,
     <<Invoice("sub_A", 2025, 7, 2, "open"), Invoice("sub_A", 2024, 12, 5, "paid")>>}

\* the hours at which dt.now() may fall
Nows == {50}

\* lines 972-1022; assigning the result of DataFrame.apply on a table without
\* rows to a single column raises or not, depending on the pandas version
CalculateCustomColumns ==
    /\ pc = "stripe"
    /\ \E stripe_data \in StripeTables, now \in Nows, raises \in BOOLEAN :
          /\ df_stripe' = stripe_data
          /\ IF \/ custom_columns_raise(df_calendesk, stripe_data)
                \/ (raises /\ df_calendesk = <<>> /\ stripe_data # <<>>)
             THEN /\ pc' = "crashed"
                  /\ UNCHANGED df_calendesk
             ELSE /\ df_calendesk' = custom_columns(df_calendesk, stripe_data, now)
                  /\ pc' = "crm"
    /\ UNCHANGED <<srvVars, fetchVars, obsVars, config, runVars, all_subscriptions,
                   users_subscriptions, crm_nip_list, df_merged, df_dated, df_platform,
                   sheetVars, pureVars>>

\* the detailed tasks the CRM may answer with
CrmDetailLists ==
    LET failed == Detail(FALSE, Task("dict", "dict", CrmInt(1234567)))
        number == Detail(TRUE, Task("dict", "dict", CrmInt(1234567)))
        text == Detail(TRUE, Task("dict", "dict", CrmStr(<<"5", "2", "6">>)))
        none == Detail(TRUE, Task("dict", "missing", CrmMissing))
    IN  {<<>>, <<failed, none>>, <<number>>, <<text, failed, number>>}

\* what the requests of fetch_crm_data may come to; raised: one of them raised
CrmOutcome(raised, session_ok, project_ok, status_found, details) ==
    [raised |-> raised, session_ok |-> session_ok, project_ok |-> project_ok,
     status_found |-> status_found, details |-> details]

CrmOutcomes ==
    {CrmOutcome(TRUE, FALSE, FALSE, FALSE, <<>>),
     CrmOutcome(FALSE, FALSE, FALSE, FALSE, <<>>),
     CrmOutcome(TRUE, TRUE, FALSE, FALSE, <<>>),
     CrmOutcome(FALSE, TRUE, FALSE, FALSE, <<>>),
     CrmOutcome(FALSE, TRUE, TRUE, FALSE, <<>>)}
    \cup {CrmOutcome(FALSE, TRUE, TRUE, TRUE, d) : d \in CrmDetailLists}

\* lines 1028-1041
AppendCrm ==
    /\ pc = "crm"
    /\ \E o \in CrmOutcomes :
          /\ crm_session' = IF o.session_ok THEN "ok" ELSE "failed"
          /\ IF o.raised
             THEN UNCHANGED <<crm_nip_list, df_calendesk>>
             ELSE /\ crm_nip_list' = fetch_crm_data(o.session_ok, o.project_ok,
                                                    o.status_found, o.details)
                  /\ LET df_crm == create_crm_dataframe(crm_nip_list')
                     IN  df_calendesk' = IF df_crm # <<>>
                                         THEN concat(df_calendesk, df_crm)
                                         ELSE df_calendesk
    /\ df_platform' = df_calendesk
    /\ pc' = "date_cell"
    /\ UNCHANGED <<srvVars, fetchVars, obsVars, config, access_token, fetch_truncated,
                   all_subscriptions, users_subscriptions, df_stripe, df_merged,
                   df_dated, sheetVars, pureVars>>

\* one request against a range of the sheet: the function that issued it, the
\* values it carried and whether the answer was a success
Op(by, kind, address, values, ok) ==
    [by |-> by, op |-> kind, address |-> address, values |-> values, ok |-> ok]

\* the dates dt.now() may fall on
Dates == {"2025-06-15"}

\* line 1047: update_current_date_cell
UpdateDateCell ==
    /\ pc = "date_cell"
    /\ \E status_code \in {200, 500}, current_date \in Dates :
          LET ok == status_code = 200
              values == <<<<Some(current_date)>>>>
          IN  /\ ops' = Append(ops, Op("update_current_date_cell", "patch",
                                       date_cell, values, ok))
              /\ sheet' = IF ok THEN Patched(sheet, date_cell, values) ELSE sheet
              /\ date_update_success' = ok
    /\ pc' = "worksheet"
    /\ UNCHANGED <<srvVars, fetchVars, obsVars, config, runVars, dataVars,
                   subscriptions_success, pureVars>>

\* lines 1050-1060: update_excel_worksheet_directly and the final report
UpdateWorksheet ==
    /\ pc = "worksheet"
    /\ \E clear_status \in {200, 204, 500}, patch_status \in {200, 500} :
          LET clear_result == clear_status \in {200, 204}
              cleared == Append(ops, Op("clear_excel_worksheet", "clear",
                                        clear_range, <<>>, clear_result))
              sheet_cleared == IF clear_result THEN Cleared(sheet, clear_range)
                               ELSE sheet
          IN  IF Len(df_calendesk) = 0
              THEN /\ ops' = cleared
                   /\ sheet' = sheet_cleared
                   /\ subscriptions_success' = TRUE
              ELSE LET range == range_address(df_calendesk)
                       values == data_values(df_calendesk)
                       ok == patch_status = 200
                   IN  /\ ops' = Append(cleared,
                                        Op("update_excel_worksheet_directly", "patch",
                                           range, values, ok))
                       /\ sheet' = IF ok THEN Patched(sheet_cleared, range, values)
                                   ELSE sheet_cleared
                       /\ subscriptions_success' = ok
    /\ pc' = IF subscriptions_success' /\ date_update_success THEN "done" ELSE "failed"
    /\ UNCHANGED <<srvVars, fetchVars, obsVars, config, runVars, dataVars,
                   date_update_success, pureVars>>

Init ==
    /\ \E p \in PlanServers, n \in 0..MaxUsers :
          srv_records = [u \in Endpoints |->
                            IF u = "subscriptions" THEN p ELSE Descending(n)]
    /\ srv_per_page = MaxPerPage
    /\ srv_inserts = 0
    /\ srv_deletes = 0
    /\ seed \in 1..Len(UserUniverse)
    /\ url = "subscriptions"
    /\ fetcher = "fetch_calendesk_data_all"
    /\ fpc = "idle"
    /\ current_page = 1
    /\ total_pages = 0
    /\ total_records = 0
    /\ all_data = <<>>
    /\ exc = FALSE
    /\ starting_after = 0
    /\ NoObservation
    /\ pc = "token"
    /\ MainIdle
    /\ PureIdle

Next ==
    \/ GetToken
    \/ FetchAllPage
    \/ ServerInsert
    \/ StoreSubscriptions
    \/ StoreUsers
    \/ MergeCalendesk
    \/ FilterCalendesk
    \/ ConvertDates
    \/ UpdateCancellation
    \/ CalculateCustomColumns
    \/ AppendCrm
    \/ UpdateDateCell
    \/ UpdateWorksheet

Spec == Init /\ [][Next]_vars

(***************************************************************************)
(* SpecSheet: the end of main (lines 1047-1060) run again and again with   *)
(* the same table against a sheet that holds the table of an earlier run   *)
(***************************************************************************)
\* the table main builds from fetched lists, invoices, now and the CRM list
ReconciledTable(users, subscriptions, invoices, now, nips) ==
    LET joined == merge(json_normalize_users(users),
                        json_normalize_subscriptions(subscriptions))
        kept == filter(joined)
        renamed == transform(kept)
        dated == convert_dates(renamed)
        reconciled == update_cancellation_dates(dated)
        platform == apply_process_nip(reconciled)
        extended == custom_columns(platform, invoices, now)
    IN  concat(extended, create_crm_dataframe(nips))

\* the sheet after an earlier run wrote this table
SheetHolding(table) ==
    IF table = <<>> THEN BaseSheet
    ELSE Patched(BaseSheet, range_address(table), data_values(table))

\* the record attributes the tables of this specification are built from
SheetSeeds == {1, 17}

\* the CRM lists the tables of this specification are built from
SheetNips == {<<>>, <<<<"5", "2", "6">>>>}

InitSheet ==
    /\ ops = <<>>
    /\ access_token = "acquired"
    /\ fetch_truncated = {}
    /\ crm_session = "ok"
    /\ seed \in SheetSeeds
    /\ config = DefaultConfig
    /\ \E n \in 0..MaxUsers, nips \in SheetNips :
          df_calendesk = ReconciledTable(Descending(n), <<1>>, <<>>, 50, nips)
    /\ \E m \in {0, MaxUsers + 1} :
          \E earlier \in {ReconciledTable(Descending(m), <<1>>, <<>>, 50, <<>>)} :
             sheet = SheetHolding(earlier)
    /\ all_subscriptions = <<>>
    /\ users_subscriptions = <<>>
    /\ df_stripe = <<>>
    /\ crm_nip_list = <<>>
    /\ df_merged = <<>>
    /\ df_dated = <<>>
    /\ df_platform = <<>>
    /\ date_update_success = FALSE
    /\ subscriptions_success = FALSE
    /\ srv_records = [u \in Endpoints |-> <<>>]
    /\ srv_per_page = 1
    /\ srv_inserts = 0
    /\ srv_deletes = 0
    /\ url = "subscriptions"
    /\ fetcher = "fetch_calendesk_data_all"
    /\ fpc = "idle"
    /\ current_page = 1
    /\ total_pages = 0
    /\ total_records = 0
    /\ all_data = <<>>
    /\ exc = FALSE
    /\ starting_after = 0
    /\ NoObservation
    /\ pc = "date_cell"
    /\ PureIdle

\* the requests the writer's clear has issued so far
Clears == SelectSeq(ops, LAMBDA o : o.op = "clear")

\* the program is started again and reaches the write-back with the same
\* table, or with a table that lost its last record
RunWriterAgain ==
    /\ pc \in {"done", "failed"}
    /\ Len(Clears) < MaxWriterCalls
    /\ pc' = "date_cell"
    /\ \/ df_calendesk' = df_calendesk
       \/ /\ df_calendesk # <<>>
          /\ df_calendesk' = SubSeq(df_calendesk, 1, Len(df_calendesk) - 1)
    /\ UNCHANGED <<srvVars, fetchVars, obsVars, config, runVars, all_subscriptions,
                   users_subscriptions, df_stripe, crm_nip_list, df_merged,
                   df_dated, df_platform, sheetVars, pureVars>>

\* the cells a person may type into between two runs: one of the managed
\* span (E9) and one beside it (B3)
EditCells == {<<9, 5>>, <<3, 2>>}

Edits == SelectSeq(ops, LAMBDA o : o.op = "edit")

\* a person types a value into a cell between two runs, once
ExternalEdit ==
    /\ pc \in {"done", "failed"}
    /\ Edits = <<>>
    /\ \E k \in EditCells :
          LET letters == get_column_letter(k[2])
              cell == Address(letters, k[1], letters, k[1])
              values == <<<<Some("edited")>>>>
          IN  /\ sheet' = Patched(sheet, cell, values)
              /\ ops' = Append(ops, Op("user", "edit", cell, values, TRUE))
    /\ UNCHANGED <<srvVars, fetchVars, obsVars, pc, config, runVars, dataVars,
                   date_update_success, subscriptions_success, pureVars>>

NextSheet ==
    \/ UpdateDateCell
    \/ UpdateWorksheet
    \/ RunWriterAgain
    \/ ExternalEdit

SpecSheet == InitSheet /\ [][NextSheet]_vars

(***************************************************************************)
(* Single calls of the pure functions                                      *)
(***************************************************************************)
\* nothing is being fetched and no endpoint holds a record
FetchIdle ==
    /\ srv_records = [u \in Endpoints |-> <<>>]
    /\ srv_per_page = 1
    /\ srv_inserts = 0
    /\ srv_deletes = 0
    /\ seed = 1
    /\ url = "subscriptions"
    /\ fetcher = "fetch_calendesk_data_all"
    /\ fpc = "idle"
    /\ current_page = 1
    /\ total_pages = 0
    /\ total_records = 0
    /\ all_data = <<>>
    /\ exc = FALSE
    /\ starting_after = 0
    /\ NoObservation

\* the values client.company.nip is drawn from
NipNumbers == {-5, 0, 1, 9, 10, 42, 526, 1234567, 123456789, 999999999,
               1000000000, 1234567890, 2147483647}

NipTexts == {<<>>,
             <<"0">>,
             <<"1", "2", "3", "4", "5", "6", "7">>,
             <<"5", "2", "6", "0", "0", "0", "1", "2", "4", "6">>,
             <<"1", "2", "3", "-", "4", "5">>,
             <<" ", "0", "0", "4", "2", " ">>,
             <<"P", "L", "5", "2", "6", "0", "0", "0", "1", "2", "4", "6">>}

NipValues ==
    {CrmInt(n) : n \in NipNumbers}
    \cup {CrmFloat(n, f) : n \in {-3, 0, 7, 1234567}, f \in BOOLEAN}
    \cup {CrmStr(t) : t \in NipTexts}
    \cup {CrmNone, CrmMissing}

Shapes == {"dict", "other", "missing"}

NipTasks == {Task(c, k, v) : c \in Shapes, k \in Shapes, v \in NipValues}

InitNip ==
    /\ arg \in NipTasks
    /\ result = <<>>
    /\ pc = "call"
    /\ FetchIdle
    /\ MainIdle

\* nip = extract_client_nip(detailed_task)
CallExtractClientNip ==
    /\ pc = "call"
    /\ result' = extract_client_nip(arg)
    /\ pc' = "returned"
    /\ UNCHANGED <<srvVars, fetchVars, obsVars, mainVars, arg>>

NextNip == CallExtractClientNip

SpecNip == InitNip /\ [][NextNip]_vars

InitColumnLetter ==
    /\ arg \in 1..MaxCol
    /\ result = <<>>
    /\ pc = "call"
    /\ FetchIdle
    /\ MainIdle

\* get_column_letter(col_num)
CallGetColumnLetter ==
    /\ pc = "call"
    /\ result' = get_column_letter(arg)
    /\ pc' = "returned"
    /\ UNCHANGED <<srvVars, fetchVars, obsVars, mainVars, arg>>

NextColumnLetter == CallGetColumnLetter

SpecColumnLetter == InitColumnLetter /\ [][NextColumnLetter]_vars

\* the target months of a single call: a month of 31 days, February, and the
\* last month of the year
ChosenMonths == {1, 2, 12}

ChosenConfigs ==
    {[DefaultConfig EXCEPT !.invoice_status_chosen_month.month = m] : m \in ChosenMonths}

\* the invoices of a single call: those of the row's subscription around the
\* windows of the target months, and one of another subscription
CallInvoices ==
    {Invoice("sub_A", d[1], d[2], d[3], status) :
        d \in {<<2023, 12, 31>>, <<2024, 1, 1>>, <<2025, 1, 30>>, <<2025, 1, 31>>,
               <<2025, 2, 10>>},
        status \in {"paid", "open"}}
    \cup {Invoice("sub_B", 2025, 1, 15, "void")}

RECURSIVE TablesOf(_, _)
\* the tables of at most n rows over a set of rows
TablesOf(rows, n) ==
    IF n = 0 THEN {<<>>}
    ELSE LET shorter == TablesOf(rows, n - 1)
         IN  shorter \cup {Append(t, r) : t \in {u \in shorter : Len(u) = n - 1}, r \in rows}

\* the rows of a single call, as the two columns the calculation reads
CallRows ==
    [ID_Suba_STRIPE : {Null, Some(""), Some("sub_A")},
     Typ_pakietu : {Some("miesieczny"), Some("roczny"), Null}]

\* the outcome of a call: a returned value, or an exception; Pending before
\* the call
Returned(value) == [raised |-> FALSE, value |-> value]
Raised == [raised |-> TRUE, value |-> ""]
Pending == [raised |-> FALSE, value |-> "pending"]

InitChosenMonth ==
    /\ config \in ChosenConfigs
    /\ arg \in [row : CallRows,
                invoices_df : TablesOf(CallInvoices, MaxInvoices) \ {<<>>}]
    /\ result = Pending
    /\ pc = "call"
    /\ FetchIdle
    /\ all_subscriptions = <<>>
    /\ users_subscriptions = <<>>
    /\ df_calendesk = <<>>
    /\ df_stripe = <<>>
    /\ crm_nip_list = <<>>
    /\ df_merged = <<>>
    /\ df_dated = <<>>
    /\ df_platform = <<>>
    /\ ops = <<>>
    /\ sheet = BaseSheet
    /\ date_update_success = FALSE
    /\ subscriptions_success = FALSE
    /\ access_token = "none"
    /\ fetch_truncated = {}
    /\ crm_session = "none"

\* lines 1006-1008: calculate_invoice_status_chosen_month(row, df_stripe), which
\* main calls when df_stripe has rows
CallChosenMonth ==
    /\ pc = "call"
    /\ result' = IF chosen_month_raises(arg.row) THEN Raised
                 ELSE Returned(calculate_invoice_status_chosen_month(arg.row,
                                                                     arg.invoices_df))
    /\ pc' = "returned"
    /\ UNCHANGED <<srvVars, fetchVars, obsVars, mainVars, arg>>

NextChosenMonth == CallChosenMonth

SpecChosenMonth == InitChosenMonth /\ [][NextChosenMonth]_vars

\* the two months of a single call of the two-month calculation: the second
\* of 31 days, of 30 days, and February
Last2MonthPairs == {<<6, 7>>, <<5, 6>>, <<1, 2>>}

Last2Configs ==
    {[DefaultConfig EXCEPT !.invoice_status_last_2_months.month1 = p[1],
                           !.invoice_status_last_2_months.month2 = p[2]] :
        p \in Last2MonthPairs}

\* the invoices of a single call: those of the row's subscription at the
\* edges of the windows of months 6 and 7, and one of another subscription
Last2Invoices ==
    {Invoice("sub_A", d[1], d[2], d[3], status) :
        d \in {<<2024, 6, 30>>, <<2024, 7, 1>>, <<2025, 5, 31>>, <<2025, 6, 1>>,
               <<2025, 7, 31>>, <<2025, 8, 1>>},
        status \in {"paid", "open"}}
    \cup {Invoice("sub_B", 2025, 7, 15, "paid")}

InitLast2Months ==
    /\ config \in Last2Configs
    /\ arg \in [row : CallRows,
                invoices_df : TablesOf(Last2Invoices, MaxInvoices) \ {<<>>}]
    /\ result = Pending
    /\ pc = "call"
    /\ FetchIdle
    /\ all_subscriptions = <<>>
    /\ users_subscriptions = <<>>
    /\ df_calendesk = <<>>
    /\ df_stripe = <<>>
    /\ crm_nip_list = <<>>
    /\ df_merged = <<>>
    /\ df_dated = <<>>
    /\ df_platform = <<>>
    /\ ops = <<>>
    /\ sheet = BaseSheet
    /\ date_update_success = FALSE
    /\ subscriptions_success = FALSE
    /\ access_token = "none"
    /\ fetch_truncated = {}
    /\ crm_session = "none"

\* lines 1009-1011: calculate_invoice_status_last_2_months(row, df_stripe),
\* which main calls when df_stripe has rows
CallLast2Months ==
    /\ pc = "call"
    /\ result' = IF last_2_months_raises(arg.row) THEN Raised
                 ELSE Returned(calculate_invoice_status_last_2_months(arg.row,
                                                                      arg.invoices_df))
    /\ pc' = "returned"
    /\ UNCHANGED <<srvVars, fetchVars, obsVars, mainVars, arg>>

NextLast2Months == CallLast2Months

SpecLast2Months == InitLast2Months /\ [][NextLast2Months]_vars

\* the configurations of the derivation of one row: every target month, the
\* two-month window ending in it
MonthConfigs ==
    {[DefaultConfig EXCEPT !.invoice_status_chosen_month.month = m,
                           !.invoice_status_last_2_months.month1 =
                                IF m = 1 THEN 1 ELSE m - 1,
                           !.invoice_status_last_2_months.month2 = m] :
        m \in 1..12}

InitInvoiceStatus ==
    /\ config \in MonthConfigs
    /\ arg \in [row : CallRows,
                invoices_df : TablesOf(CallInvoices, MaxInvoices) \ {<<>>}]
    /\ result = <<>>
    /\ pc = "chosen_month"
    /\ FetchIdle
    /\ all_subscriptions = <<>>
    /\ users_subscriptions = <<>>
    /\ df_calendesk = <<>>
    /\ df_stripe = <<>>
    /\ crm_nip_list = <<>>
    /\ df_merged = <<>>
    /\ df_dated = <<>>
    /\ df_platform = <<>>
    /\ ops = <<>>
    /\ sheet = BaseSheet
    /\ date_update_success = FALSE
    /\ subscriptions_success = FALSE
    /\ access_token = "none"
    /\ fetch_truncated = {}
    /\ crm_session = "none"

\* lines 1006-1008 for one row; the statement is inside no try, an exception
\* of the calculation ends the run
ApplyChosenMonth ==
    /\ pc = "chosen_month"
    /\ IF chosen_month_raises(arg.row)
       THEN pc' = "crashed" /\ UNCHANGED result
       ELSE /\ result' = Append(result,
                    calculate_invoice_status_chosen_month(arg.row, arg.invoices_df))
            /\ pc' = "last_2_months"
    /\ UNCHANGED <<srvVars, fetchVars, obsVars, mainVars, arg>>

\* lines 1009-1011 for one row
ApplyLast2Months ==
    /\ pc = "last_2_months"
    /\ IF last_2_months_raises(arg.row)
       THEN pc' = "crashed" /\ UNCHANGED result
       ELSE /\ result' = Append(result,
                    calculate_invoice_status_last_2_months(arg.row, arg.invoices_df))
            /\ pc' = "last_month"
    /\ UNCHANGED <<srvVars, fetchVars, obsVars, mainVars, arg>>

NextInvoiceStatus ==
    \/ ApplyChosenMonth
    \/ ApplyLast2Months

SpecInvoiceStatus == InitInvoiceStatus /\ [][NextInvoiceStatus]_vars

\* one page request: arg holds what each of the attempts would end in
InitRetry ==
    /\ arg \in OutcomeSeqs
    /\ result = [status_code |-> 0, attempts |-> 0]
    /\ pc = "call"
    /\ FetchIdle
    /\ MainIdle

\* response = make_api_request_with_retry(url, headers, params)
CallRetry ==
    /\ pc = "call"
    /\ result' = make_api_request_with_retry(arg)
    /\ pc' = "returned"
    /\ UNCHANGED <<srvVars, fetchVars, obsVars, mainVars, arg>>

NextRetry == CallRetry

SpecRetry == InitRetry /\ [][NextRetry]_vars

\* the hours the dates of a single call fall on
Hours == 0..MaxHour

Status3Ids == {IdNaN, IdStr(""), IdInt(0), IdInt(5), IdStr("abc")}

Status3Expirations ==
    {ExpNaT, ExpStr("", 0), ExpStr("other", 0)}
    \cup {ExpTs(t) : t \in Hours}
    \cup {ExpStr("%Y-%m-%d %H:%M:%S", t) : t \in Hours}
    \cup {ExpStr("%Y-%m-%d", t) : t \in Hours}

InitStatus3 ==
    /\ arg \in [subscription_client_id : Status3Ids,
                expiration_date : Status3Expirations,
                now : Hours,
                invoices_df : StripeTables]
    /\ result = ""
    /\ pc = "call"
    /\ FetchIdle
    /\ MainIdle

\* df_calendesk.apply(calculate_status3, axis=1) on one row, at dt.now()
CallCalculateStatus3 ==
    /\ pc = "call"
    /\ result' = status3_of(arg.subscription_client_id, arg.expiration_date, arg.now)
    /\ pc' = "returned"
    /\ UNCHANGED <<srvVars, fetchVars, obsVars, mainVars, arg>>

NextStatus3 == CallCalculateStatus3

SpecStatus3 == InitStatus3 /\ [][NextStatus3]_vars

(***************************************************************************)
(* Claims about the paged fetch (checked under SpecFetch)                  *)
(***************************************************************************)
\* the fetch call has returned and every page request it made was answered
\* with 200 by an endpoint whose record set did not change meanwhile
FetchSucceeded ==
    fpc = "returned" /\ page_failed = 0 /\ srv_inserts = 0 /\ srv_deletes = 0

DeclaredLastPage == Max(1, PageCount(srv_records[url], srv_per_page))

\* C1: if the server holds T records over any number of pages and every page
\* request succeeds, the fetch returns exactly T records, having requested
\* every page from 1 through the declared last page.
C1_FetchReturnsAllRecords ==
    FetchSucceeded =>
        /\ Len(all_data) = Len(srv_records[url])
        /\ \A p \in 1..DeclaredLastPage : p \in Range(requested)

\* C1 holds of both fetchers as long as the records fit in max_pages pages
C1_WithinMaxPages ==
    (FetchSucceeded /\ (fetcher = "fetch_calendesk_data_all"
                            => DeclaredLastPage <= max_pages)) =>
        /\ Len(all_data) = Len(srv_records[url])
        /\ \A p \in 1..DeclaredLastPage : p \in Range(requested)

\* C2 as stated (for an endpoint that holds records): when a page request
\* exhausts its retries, the call raises
\* nothing, stops paging, returns the records of the pages fetched before the
\* failing page, fewer than the server-declared total, and the run continues.
C2_Original ==
    (fail_kind = "exhausted" /\ srv_records[url] # <<>>) =>
        /\ ~exc
        /\ fpc = "returned"
        /\ requested = [i \in 1..page_failed |-> i]
        /\ all_data = Flatten(served)
        /\ Len(all_data) < Len(srv_records[url])
        /\ pc \in {"fetching", "continues"}

\* C2 as amended: the returned records are at most the declared total, and
\* fewer when the failing page is one that holds records; the run continues
\* with them unless there are none (page 1 failed), and then it aborts.
C2_ExhaustedPageTruncates ==
    fail_kind = "exhausted" =>
        /\ ~exc
        /\ fpc = "returned"
        /\ requested = [i \in 1..page_failed |-> i]
        /\ all_data = Flatten(served)
        /\ Len(all_data) <= Len(srv_records[url])
        /\ (PageData(srv_records[url], srv_per_page, page_failed) # <<>>
                => Len(all_data) < Len(srv_records[url]))
        /\ (pc = "continues" => all_data # <<>>)
        /\ (pc = "aborted" => all_data = <<>>)
        /\ pc # "crashed"

\* a later page exhausted its retries and the run went on with the records
\* of the pages before it
C2_Witness ==
    /\ fail_kind = "exhausted"
    /\ page_failed > 1
    /\ all_data # <<>>
    /\ pc = "continues"

(***************************************************************************)
(* Claims about the run (checked under Spec)                               *)
(***************************************************************************)
\* the positions of the run at which the joined table exists
AfterMerge == pc \in {"filter", "dates", "cancellation", "stripe", "crm", "date_cell",
                      "worksheet", "done", "failed", "crashed"}

\* the positions at which the filter has been applied and the run goes on
AfterFilter == pc \in {"dates", "cancellation", "stripe", "crm", "date_cell",
                       "worksheet", "done", "failed", "crashed"}

\* the positions at which the cancellation dates have been reconciled
AfterReconciliation == pc \in {"stripe", "crm", "date_cell", "worksheet", "done",
                               "failed", "crashed"}

\* the positions at which the CRM step is over
AfterAppend == pc \in {"date_cell", "worksheet", "done", "failed"}

\* the platform-sourced rows of the table
PlatformRows == IF AfterAppend THEN df_platform ELSE df_calendesk

\* no fetched plan-metadata record has the plan identity of this joined row
Unmatched(row) ==
    \A k \in 1..Len(all_subscriptions) : all_subscriptions[k] # row.subscription_id

\* C3: the join is a left join: every fetched customer-subscription record
\* appears in the joined table, and a record whose plan identity matches no
\* plan-metadata record is kept, with a null plan identifier and a null
\* billing interval
C3_LeftJoinKeepsEveryRecord ==
    AfterMerge =>
        /\ \A i \in 1..Len(users_subscriptions) :
              \E j \in 1..Len(df_merged) : df_merged[j].id_x = users_subscriptions[i]
        /\ \A j \in 1..Len(df_merged) :
              Unmatched(df_merged[j]) =>
                  /\ df_merged[j].id_y = Null
                  /\ df_merged[j].price_recurring_interval = Null

\* C3 witness: a joined table holding a record without a plan-metadata match
C3_Witness ==
    /\ AfterMerge
    /\ \E j \in 1..Len(df_merged) :
          /\ Unmatched(df_merged[j])
          /\ df_merged[j].id_x \in Range(users_subscriptions)
          /\ df_merged[j].price_recurring_interval = Null
    /\ \E j \in 1..Len(df_merged) : df_merged[j].price_recurring_interval # Null

\* the condition of the claim on a joined record
C4_Passes(row) ==
    /\ row.status = "active" \/ row.status = "canceled"
    /\ row.id_y = Null \/ row.id_y[1] \notin excluded_subscription_ids
    /\ row.user_id \notin excluded_user_ids

\* the customer-subscription identifiers of a table, in order
IdsOf(df) == [i \in 1..Len(df) |-> df[i].ID_Subskrypcji_Klienta]

\* C4: a joined record reaches the final table if and only if its status is
\* active or canceled, its plan identifier is not on the subscription
\* deny-list and its customer identifier is not on the user deny-list: the
\* platform rows are exactly the joined records that pass, in order
C4_FilterKeepsExactlyThePassing ==
    AfterFilter =>
        LET passing == SelectSeq(df_merged, C4_Passes)
        IN  IdsOf(PlatformRows) = [i \in 1..Len(passing) |-> passing[i].id_x]

\* C4 witness: a joined record without a plan-metadata match and with a status
\* outside {active, canceled} is absent from a non-empty final table
C4_Witness ==
    /\ AfterFilter
    /\ PlatformRows # <<>>
    /\ \E j \in 1..Len(df_merged) :
          /\ df_merged[j].id_y = Null
          /\ df_merged[j].status = "incomplete"
          /\ df_merged[j].id_x \notin Range(IdsOf(PlatformRows))

\* C5: reconciliation of the cancellation date of every platform row: a null
\* cancellation date with expiration date D becomes D, stays null when the
\* expiration date is null too, and a non-null cancellation date is kept; so
\* no platform row has a null cancellation date and a non-null expiration date
C5_CancellationDateReconciled ==
    AfterReconciliation =>
        /\ Len(PlatformRows) = Len(df_dated)
        /\ \A i \in 1..Len(PlatformRows) :
              LET was == df_dated[i]
                  row == PlatformRows[i]
              IN  /\ row.Data_wygasniecia = was.Data_wygasniecia
                  /\ (was.Data_anulowania = Null /\ was.Data_wygasniecia # Null)
                        => row.Data_anulowania = was.Data_wygasniecia
                  /\ (was.Data_anulowania = Null /\ was.Data_wygasniecia = Null)
                        => row.Data_anulowania = Null
                  /\ was.Data_anulowania # Null
                        => row.Data_anulowania = was.Data_anulowania
                  /\ ~(row.Data_anulowania = Null /\ row.Data_wygasniecia # Null)

\* C5 witness: a platform row whose cancellation date was null has received
\* its expiration date, next to a row whose cancellation date was kept
C5_Witness ==
    /\ AfterReconciliation
    /\ \E i \in 1..Len(PlatformRows) :
          /\ df_dated[i].Data_anulowania = Null
          /\ df_dated[i].Data_wygasniecia # Null
          /\ PlatformRows[i].Data_anulowania = df_dated[i].Data_wygasniecia
    /\ \E i \in 1..Len(PlatformRows) :
          /\ df_dated[i].Data_anulowania # Null
          /\ df_dated[i].Data_wygasniecia # Null
          /\ PlatformRows[i].Data_anulowania # PlatformRows[i].Data_wygasniecia

(***************************************************************************)
(* Claims about extract_client_nip (checked under SpecNip)                 *)
(***************************************************************************)
\* the task carries client.company as objects
HasCompany == arg.client = "dict" /\ arg.company = "dict"

\* C6, as stated: every non-empty tax identifier extracted from a CRM record
\* is a 10-character digit string, whether it was delivered as a number or as
\* a digit string
C6_Original ==
    (pc = "returned" /\ result # <<>>) => (Len(result) = NipWidth /\ isdigit(result))

\* C6, amended: a positive number is rendered as the digits of its integer
\* part, left-padded with zeros to 10 characters (1234567 gives "0001234567");
\* a non-empty text is returned unchanged; anything else gives no identifier
C6_NumberPaddedTextUnchanged ==
    pc = "returned" =>
        /\ (HasCompany /\ IsPositiveNumber(arg.nip)) =>
              /\ Len(result) = NipWidth
              /\ isdigit(result)
              /\ int_str(result) = arg.nip.i
        /\ (HasCompany /\ arg.nip = CrmInt(1234567)) =>
              result = <<"0", "0", "0", "1", "2", "3", "4", "5", "6", "7">>
        /\ (HasCompany /\ arg.nip.type = "str") => result = arg.nip.s
        /\ (~HasCompany \/ (arg.nip.type # "str" /\ ~IsPositiveNumber(arg.nip))) =>
              result = <<>>

\* C6 witness: the 7-digit text "1234567" has been extracted as it is
C6_Witness ==
    /\ pc = "returned"
    /\ HasCompany
    /\ arg.nip = CrmStr(<<"1", "2", "3", "4", "5", "6", "7">>)
    /\ result = <<"1", "2", "3", "4", "5", "6", "7">>

(***************************************************************************)
(* Claims about get_column_letter (checked under SpecColumnLetter)         *)
(***************************************************************************)
\* the strings of one or two letters
ShortColumns == {<<Letters[i]>> : i \in 1..26}
                \cup {<<Letters[i], Letters[j]>> : i \in 1..26, j \in 1..26}

\* C7: the letters of column index n >= 1 are a non-empty string over A..Z
\* whose value as a bijective base-26 numeral is n (1 -> A, 26 -> Z, 27 -> AA,
\* 28 -> AB); no other string has that value and no other index these letters
C7_BijectiveBase26 ==
    pc = "returned" =>
        /\ result # <<>>
        /\ \A i \in 1..Len(result) : result[i] \in Range(Letters)
        /\ ColumnValue(result) = arg
        /\ \A t \in ShortColumns : ColumnValue(t) = arg => t = result
        /\ \A m \in 1..MaxCol : m # arg => get_column_letter(m) # result
        /\ arg = 1 => result = <<"A">>
        /\ arg = 26 => result = <<"Z">>
        /\ arg = 27 => result = <<"A", "A">>
        /\ arg = 28 => result = <<"A", "B">>

\* C7 witness: the first index of three letters has been converted
C7_Witness ==
    /\ pc = "returned"
    /\ arg = 703
    /\ result = <<"A", "A", "A">>

(***************************************************************************)
(* Claims about the reconciled table (checked under Spec)                  *)
(***************************************************************************)
\* C8: in the reconciled table no two platform-sourced rows carry the same
\* customer-subscription identifier, also when the paged fetch returned the
\* same record on two pages
C8_PlatformIdentifiersUnique ==
    AfterAppend =>
        \A i, j \in 1..Len(PlatformRows) :
            i # j => PlatformRows[i].ID_Subskrypcji_Klienta
                        # PlatformRows[j].ID_Subskrypcji_Klienta

\* the rows appended after the platform rows
CrmRows == SubSeq(df_calendesk, Len(df_platform) + 1, Len(df_calendesk))

\* the fields of a CRM row other than the identifiers, the tax identifier and
\* the plan label are empty
OthersEmpty(row) ==
    /\ row.Status = ""
    /\ row.Data_zakupu = Null
    /\ row.Data_wygasniecia = Null
    /\ row.Data_anulowania = Null
    /\ row.Imie_i_Nazwisko_Klienta = ""
    /\ row.Email = ""
    /\ row.Typ_pakietu = Some("")
    /\ row.ID_Suba_STRIPE = Some("")
    /\ row.Nazwa_Firmy = ""
    /\ row.Telefon = ""
    /\ row.Invoice_status_in_chosen_month = ""
    /\ row.Invoice_status_in_last_2_months = ""
    /\ row.Last_invoice_month = ""

\* the identifiers of a CRM row are 0 and it carries the tax identifier and
\* the plan label
SentinelRow(row, nip) ==
    /\ row.ID_Subskrypcji_Klienta = 0
    /\ row.ID_Subskrypcji = Some(0)
    /\ row.ID_Klienta = 0
    /\ row.NIP = NipStr(nip)
    /\ nip # <<>>
    /\ row.Pakiet = "UMOWA TRADYCYJNA"

\* the append leaves the platform rows and their order unchanged and adds one
\* row for each extracted tax identifier, in order, after them
AppendedAfter ==
    /\ Len(df_calendesk) = Len(df_platform) + Len(crm_nip_list)
    /\ SubSeq(df_calendesk, 1, Len(df_platform)) = df_platform
    /\ \A i \in 1..Len(df_platform) : df_platform[i].Pakiet # "UMOWA TRADYCYJNA"

\* C9, as stated: each CRM record is appended after the platform rows as one
\* row with zero identifiers in which only the tax identifier and the plan
\* label are populated
C9_Original ==
    AfterAppend =>
        /\ AppendedAfter
        /\ \A i \in 1..Len(crm_nip_list) :
              /\ SentinelRow(CrmRows[i], crm_nip_list[i])
              /\ OthersEmpty(CrmRows[i])
              /\ CrmRows[i].Status3 = ""

\* C9, amended: each tax identifier extracted from the CRM is appended after
\* the platform rows as one row with zero identifiers in which the tax
\* identifier, the plan label and the default Status3 "Nieokreslony" are
\* populated and nothing else; the platform rows and their order are
\* unchanged, so the row count is platform rows plus CRM rows
C9_AppendedWithDefaultStatus ==
    AfterAppend =>
        /\ AppendedAfter
        /\ \A i \in 1..Len(crm_nip_list) :
              /\ SentinelRow(CrmRows[i], crm_nip_list[i])
              /\ OthersEmpty(CrmRows[i])
              /\ CrmRows[i].Status3 = "Nieokreslony"

\* C9 witness: two CRM rows follow a platform row
C9_Witness ==
    /\ AfterAppend
    /\ df_platform # <<>>
    /\ Len(crm_nip_list) = 2
    /\ crm_nip_list[1] # crm_nip_list[2]
    /\ CrmRows[2].NIP = NipStr(crm_nip_list[2])
    /\ CrmRows[2].Status3 = "Nieokreslony"

(***************************************************************************)
(* Claims about the sheet writer (checked under Spec)                      *)
(***************************************************************************)
\* the requests of the sheet writer: its clear and its bulk write
WriterOps == SelectSeq(ops, LAMBDA o : o.by \in {"clear_excel_worksheet",
                                                "update_excel_worksheet_directly"})

\* the managed column span of the subscriptions sheet, C to U, as indices
ManagedFirst == ColumnValue(<<"C">>)
ManagedLast == ColumnValue(<<"U">>)

\* an address lies in rows >= 2 of the managed columns
InManagedRegion(a) ==
    /\ 2 <= a.start_row
    /\ a.start_row <= a.end_row
    /\ ManagedFirst <= ColumnValue(a.start_col)
    /\ ColumnValue(a.start_col) <= ColumnValue(a.end_col)
    /\ ColumnValue(a.end_col) <= ManagedLast

\* C10: every clear and every bulk write of the sheet writer addresses only
\* cells in rows >= 2 of the managed column span: row 1 and the columns
\* outside the span are in none of their ranges
C10_WriterStaysInManagedRegion ==
    \A k \in 1..Len(WriterOps) : InManagedRegion(WriterOps[k].address)

\* C10 witness: the writer has cleared and then written a table of at least
\* three rows
C10_Witness ==
    /\ pc \in {"done", "failed"}
    /\ Len(WriterOps) = 2
    /\ WriterOps[1].op = "clear"
    /\ WriterOps[2].op = "patch"
    /\ WriterOps[2].address.end_row >= 4
    /\ WriterOps[2].address.end_row = Len(df_calendesk) + 1

(***************************************************************************)
(* C11: the bulk write-back is idempotent                                  *)
(***************************************************************************)
\* the content of the managed data region: rows from 2 of columns C to U
ManagedCells(cells) ==
    [k \in {c \in DOMAIN cells : /\ c[1] >= 2
                                /\ c[2] >= ManagedFirst
                                /\ c[2] <= ManagedLast} |-> cells[k]]

\* the position in the log of the clear that began the latest writer call
LastClear(log) ==
    CHOOSE i \in 1..Len(log) :
        /\ log[i].op = "clear"
        /\ \A j \in (i + 1)..Len(log) : log[j].op # "clear"

\* the log holds a writer call, every request of the latest one succeeded and
\* nobody edited the sheet since it began
LatestCallSucceeded(log) ==
    /\ \E i \in 1..Len(log) : log[i].op = "clear"
    /\ \A j \in LastClear(log)..Len(log) :
          /\ log[j].op # "edit"
          /\ log[j].by \in {"clear_excel_worksheet",
                            "update_excel_worksheet_directly"} => log[j].ok

\* a step of the sheet writer
WriterStep == pc = "worksheet" /\ pc' # "worksheet"

\* the values the latest writer call sent, none for an empty table
LatestValues(log) ==
    IF LastClear(log) < Len(log) /\ log[LastClear(log) + 1].by = "update_excel_worksheet_directly"
    THEN log[LastClear(log) + 1].values
    ELSE <<>>

\* C11: when the sheet writer has run with every request succeeding and runs
\* again with the same table, again with every request succeeding and with no
\* edit of the sheet in between, the second run leaves the managed data region
\* exactly as the first run left it.
C11_BulkWriteIdempotent ==
    [][(/\ WriterStep
        /\ LatestCallSucceeded(ops)
        /\ LatestCallSucceeded(ops')
        /\ LatestValues(ops') = LatestValues(ops))
       => ManagedCells(sheet') = ManagedCells(sheet)]_vars

\* C11 witness: the writer has run twice with every request succeeding, both
\* times on the same table of at least two rows, and nobody edited the sheet
C11_Witness ==
    /\ pc = "done"
    /\ Len(df_calendesk) >= 2
    /\ Len(WriterOps) = 4
    /\ \A k \in 1..Len(WriterOps) : WriterOps[k].ok
    /\ WriterOps[2].values = WriterOps[4].values
    /\ Edits = <<>>
    /\ ManagedCells(sheet) # ManagedCells(BaseSheet)

(***************************************************************************)
(* C12: the clear covers rows 2 to 15000 and precedes the bulk write       *)
(***************************************************************************)
\* the latest clear succeeded and nobody edited the sheet since
LatestClearHeld(log) ==
    /\ \E i \in 1..Len(log) : log[i].op = "clear"
    /\ log[LastClear(log)].ok
    /\ \A j \in LastClear(log)..Len(log) : log[j].op # "edit"

\* C12: every clear of the writer addresses rows 2 to 15000 of columns C to U
\* whatever the length of the table, every bulk write directly follows a
\* clear, and after a writer call whose clear succeeded and that wrote N
\* records no cell of columns C to U in rows N+2 to 15000 holds content.
C12_ClearCoversAndPrecedes ==
    /\ \A k \in 1..Len(ops) :
          ops[k].op = "clear" =>
             ops[k].address = Address(<<"C">>, 2, <<"U">>, ClearLastRow)
    /\ \A k \in 1..Len(ops) :
          ops[k].by = "update_excel_worksheet_directly" =>
             k > 1 /\ ops[k - 1].op = "clear"
    /\ (pc \in {"done", "failed"} /\ LatestClearHeld(ops)) =>
          \A c \in DOMAIN ManagedCells(sheet) : c[1] <= Len(df_calendesk) + 1

\* the bulk writes of the writer so far
BulkWrites == SelectSeq(ops, LAMBDA o : o.by = "update_excel_worksheet_directly")

\* C12 witness: a run wrote a table, a later run with every request succeeding
\* wrote a shorter one, and the rows the longer table occupied below the
\* shorter one are empty
C12_Witness ==
    /\ pc = "done"
    /\ Edits = <<>>
    /\ Len(BulkWrites) = 2
    /\ BulkWrites[1].ok
    /\ BulkWrites[2].ok
    /\ BulkWrites[2].address.end_row < BulkWrites[1].address.end_row
    /\ LatestClearHeld(ops)
    /\ \A c \in DOMAIN ManagedCells(sheet) : c[1] <= BulkWrites[2].address.end_row

(***************************************************************************)
(* C13: success of the run and success of its write calls                  *)
(***************************************************************************)
\* the position in the log of the date update that began the latest run
LastDateUpdate(log) ==
    CHOOSE i \in 1..Len(log) :
        /\ log[i].by = "update_current_date_cell"
        /\ \A j \in (i + 1)..Len(log) : log[j].by # "update_current_date_cell"

\* the requests of the latest run: the date update, the clear, the bulk write
RunOps(log) ==
    SelectSeq(SubSeq(log, LastDateUpdate(log), Len(log)), LAMBDA o : o.by # "user")

\* C13: a failed clear is still followed by the bulk write of a table that has
\* rows, and the run reports success only if the clear, the bulk write and
\* the date update of the run all succeeded.
C13_SuccessOnlyIfEveryWriteSucceeded ==
    /\ \A k \in 1..Len(ops) :
          (ops[k].op = "clear" /\ ~ops[k].ok /\ df_calendesk # <<>>
                /\ pc \in {"done", "failed"} /\ k = LastClear(ops)) =>
             k < Len(ops) /\ ops[k + 1].by = "update_excel_worksheet_directly"
    /\ pc = "done" => \A k \in 1..Len(RunOps(ops)) : RunOps(ops)[k].ok

(***************************************************************************)
(* C14: failures to acquire a credential or a session                      *)
(***************************************************************************)
\* no request has been sent to a subscription-platform endpoint
NothingFetched ==
    /\ fpc = "idle"
    /\ requested = <<>>
    /\ all_subscriptions = <<>>
    /\ users_subscriptions = <<>>

\* C14 as stated: when the bearer token or the CRM session cannot be acquired
\* the run has aborted with no source fetched and no range operation issued,
\* and range operations are issued only with a token acquired before.
C14_Original ==
    /\ (access_token = "failed" \/ crm_session = "failed") =>
          pc = "aborted" /\ NothingFetched /\ ops = <<>>
    /\ ops # <<>> => access_token = "acquired"

\* C14 amended: when the bearer token cannot be acquired the run has aborted
\* with no source fetched and no range operation issued, and range operations
\* are issued only with a token acquired before; when the CRM login fails,
\* which happens after the platform fetches, the run does not abort: it goes
\* on without CRM rows and clears and writes the sheet.
C14_TokenFailureAbortsCrmFailureDoesNot ==
    /\ access_token = "failed" =>
          pc = "aborted" /\ NothingFetched /\ ops = <<>> /\ crm_session = "none"
    /\ ops # <<>> => access_token = "acquired"
    /\ crm_session = "failed" =>
          /\ pc \in {"date_cell", "worksheet", "done", "failed"}
          /\ users_subscriptions # <<>>
          /\ crm_nip_list = <<>>
          /\ df_calendesk = df_platform
    /\ (crm_session = "failed" /\ pc \in {"done", "failed"}) =>
          \E k \in 1..Len(ops) : ops[k].op = "clear"

\* C14 witness: the CRM login failed and the run wrote a table of platform
\* rows to the sheet and reported success
C14_Witness ==
    /\ crm_session = "failed"
    /\ pc = "done"
    /\ df_calendesk # <<>>
    /\ ops[Len(ops)].by = "update_excel_worksheet_directly"
    /\ ops[Len(ops)].ok

(***************************************************************************)
(* C15: a mandatory endpoint without records                               *)
(***************************************************************************)
\* both platform fetches of the run have returned and main has tested them
PlatformFetched ==
    /\ access_token = "acquired"
    /\ pc \notin {"token", "fetch_subscriptions", "fetch_users"}

\* C15: when either platform endpoint has yielded no records the run has
\* aborted, no clear, bulk write or date-cell update has been issued and the
\* sheet is as it was.
C15_NoRecordsAborts ==
    (PlatformFetched /\ (all_subscriptions = <<>> \/ users_subscriptions = <<>>)) =>
        pc = "aborted" /\ ops = <<>> /\ sheet = BaseSheet

\* C15 witness: the plan endpoint yielded records, the customer-subscription
\* endpoint held records but yielded none, and the run has aborted
C15_Witness ==
    /\ PlatformFetched
    /\ all_subscriptions # <<>>
    /\ srv_records["users"] # <<>>
    /\ users_subscriptions = <<>>
    /\ pc = "aborted"
    /\ ops = <<>>

(***************************************************************************)
(* C16: a mandatory fetch that fails part-way                              *)
(***************************************************************************)
\* C16 as stated: when the fetch of a platform endpoint has failed part-way
\* the run has aborted once both fetches were tested, and nothing has been
\* issued against the sheet.
C16_Original ==
    fetch_truncated # {} =>
        /\ PlatformFetched => pc = "aborted"
        /\ ops = <<>>

\* the list main holds for an endpoint
FetchedList(u) == IF u = "subscriptions" THEN all_subscriptions ELSE users_subscriptions

\* main has stopped at its test of the fetched lists
AbortedAtGuard == PlatformFetched /\ pc = "aborted" /\ df_merged = <<>>

\* C16 amended: a fetch that fails part-way keeps the records of the pages it
\* fetched, fewer than the endpoint holds; main stops at its test of the
\* fetched lists only when one of them is empty; and a run that ends after
\* such a fetch has cleared the sheet and sent it the table built from the
\* partial lists.
C16_PartialFetchIsWritten ==
    /\ \A u \in fetch_truncated :
          (u = "subscriptions" \/ PlatformFetched) =>
             /\ FetchedList(u) # <<>>
             /\ Len(FetchedList(u)) < Len(srv_records[u])
    /\ AbortedAtGuard => (all_subscriptions = <<>> \/ users_subscriptions = <<>>)
    /\ (fetch_truncated # {} /\ pc \in {"done", "failed"}) =>
          /\ \E k \in 1..Len(ops) : ops[k].op = "clear"
          /\ df_calendesk # <<>> =>
                /\ ops[Len(ops)].by = "update_excel_worksheet_directly"
                /\ ops[Len(ops)].values = data_values(df_calendesk)

\* C16 witness: the fetch of the customer-subscription endpoint lost a page
\* of records, and the run wrote its table to the sheet and reported success
C16_Witness ==
    /\ "users" \in fetch_truncated
    /\ pc = "done"
    /\ df_calendesk # <<>>
    /\ ops[Len(ops)].by = "update_excel_worksheet_directly"
    /\ ops[Len(ops)].ok
    /\ Len(users_subscriptions) < Len(srv_records["users"])

(***************************************************************************)
(* C17: the payment processor yields no invoices                           *)
(***************************************************************************)
\* the invoices were fetched, there were none, and the run went on
NoInvoicesFetched ==
    /\ pc \in {"crm", "date_cell", "worksheet", "done", "failed"}
    /\ df_stripe = <<>>

BlankIdentity(id) == id.k = "nan" \/ (id.k = "str" /\ id.s = "")

\* the expiration holds a date: a timestamp, or a text one of the two formats
\* parses
ExpirationPresent(e) ==
    \/ e.k = "timestamp"
    \/ e.k = "str" /\ e.form \in {"%Y-%m-%d %H:%M:%S", "%Y-%m-%d"}

\* the first rule that matches, in the order of the claim
FirstMatch(id, e, now) ==
    IF BlankIdentity(id) THEN "Nieokreslony"
    ELSE IF ExpirationPresent(e) /\ e.t > now THEN "Anulowana (aktywna)"
    ELSE IF ~ExpirationPresent(e) THEN "Aktywna"
    ELSE "Anulowana"

\* C18: Status3 is the first match of: blank identity gives 'Nieokreslony';
\* expiration present and later than now gives 'Anulowana (aktywna)';
\* expiration absent gives 'Aktywna'; otherwise 'Anulowana'. A row whose
\* expiration lies in the future is never 'Aktywna', and the result is a
\* function of identity, expiration and now alone, whatever the invoices.
C18_FirstMatchWins ==
    pc = "returned" =>
        /\ result = FirstMatch(arg.subscription_client_id, arg.expiration_date, arg.now)
        /\ (ExpirationPresent(arg.expiration_date) /\ arg.expiration_date.t > arg.now) =>
              result # "Aktywna"

\* C18 witness: a row with an identity and an expiration in the future, given
\* as text, classified 'Anulowana (aktywna)' while invoices exist
C18_Witness ==
    /\ pc = "returned"
    /\ ~BlankIdentity(arg.subscription_client_id)
    /\ arg.expiration_date.k = "str"
    /\ ExpirationPresent(arg.expiration_date)
    /\ arg.expiration_date.t > arg.now
    /\ arg.invoices_df # <<>>
    /\ result = "Anulowana (aktywna)"

(***************************************************************************)
(* C19, C20: invoice status in the chosen month (checked under             *)
(* SpecChosenMonth)                                                        *)
(***************************************************************************)
\* the row has a payment-subscription reference
HasReference(row) == row.ID_Suba_STRIPE # Null /\ row.ID_Suba_STRIPE # Some("")

\* the positions in the table of the invoices of the row's subscription
\* created in the target month of the target year
MonthlyMatches ==
    {i \in 1..Len(arg.invoices_df) :
        /\ arg.invoices_df[i].ID_Subskrypcji = arg.row.ID_Suba_STRIPE[1]
        /\ arg.invoices_df[i].Data_Utworzenia.month = config.invoice_status_chosen_month.month
        /\ arg.invoices_df[i].Data_Utworzenia.year = config.invoice_status_chosen_month.year}

\* the status of the invoice at the least of these positions, or the empty
\* text when there is none
FirstStatus(positions) ==
    IF positions = {} THEN ""
    ELSE arg.invoices_df[CHOOSE i \in positions : \A j \in positions : i <= j].Status_Faktury

\* C19: for a row without a payment-subscription reference the result is
\* 'Nie mozna okreslic'; for a monthly row with a reference it is the status
\* of the first invoice, in table order, of that subscription created in the
\* target month of the target year, and the empty text when there is none.
C19_MonthlyFirstMatch ==
    pc = "returned" =>
        /\ ~HasReference(arg.row) => result = Returned("Nie mozna okreslic")
        /\ (HasReference(arg.row) /\ arg.row.Typ_pakietu = Some("miesieczny")) =>
              result = Returned(FirstStatus(MonthlyMatches))

\* C19 witness: a monthly row with a reference and two invoices of the target
\* month with different statuses; the result is the status of the first
C19_Witness ==
    /\ pc = "returned"
    /\ HasReference(arg.row)
    /\ arg.row.Typ_pakietu = Some("miesieczny")
    /\ MonthlyMatches = {1, 2}
    /\ arg.invoices_df[1].Status_Faktury # arg.invoices_df[2].Status_Faktury
    /\ result = Returned(arg.invoices_df[1].Status_Faktury)

\* a date as days, for comparison: every month counted as 31 days
DayNumber(y, m, d) == (y * 12 + m) * 31 + d

\* the positions in the table of the invoices of the row's subscription
\* created from day 1 of the target month of the yearly-start year to day 30
\* of the target month of the target year
YearlyMatches ==
    LET c == config.invoice_status_chosen_month
    IN  {i \in 1..Len(arg.invoices_df) :
            LET created == arg.invoices_df[i].Data_Utworzenia
                day == DayNumber(created.year, created.month, created.day)
            IN  /\ arg.invoices_df[i].ID_Subskrypcji = arg.row.ID_Suba_STRIPE[1]
                /\ DayNumber(c.yearly_subscription_start_year, c.month, 1) <= day
                /\ day <= DayNumber(c.year, c.month, 30)}

\* C20: for a yearly row with a reference, whatever the target month, the
\* result is the status of the first invoice of that subscription created
\* from day 1 of the target month of the yearly-start year to day 30 of the
\* target month of the target year, both included, and the empty text when
\* there is none.
C20_YearlyWindowToDay30 ==
    (/\ pc = "returned"
     /\ HasReference(arg.row)
     /\ arg.row.Typ_pakietu = Some("roczny")) =>
        result = Returned(FirstStatus(YearlyMatches))

(***************************************************************************)
(* C21: invoice status in the last two configured months (checked under    *)
(* SpecLast2Months)                                                        *)
(***************************************************************************)
\* the window of the row's billing interval as two day numbers, first and last
\* day included: the monthly window runs from day 1 of the first month to day
\* 31 of the second, the yearly one from day 1 of the second month of the
\* yearly-start year to day 31 of the second month of the configured year
Last2Window ==
    LET c == config.invoice_status_last_2_months
    IN  IF arg.row.Typ_pakietu = Some("miesieczny")
        THEN <<DayNumber(c.year, c.month1, 1), DayNumber(c.year, c.month2, 31)>>
        ELSE <<DayNumber(c.yearly_subscription_start_year, c.month2, 1),
               DayNumber(c.year, c.month2, 31)>>

\* the row has a billing interval
HasInterval == arg.row.Typ_pakietu \in {Some("miesieczny"), Some("roczny")}

\* the positions in the table of the paid invoices of the row's subscription
\* created in the window
PaidInWindow ==
    {i \in 1..Len(arg.invoices_df) :
        LET created == arg.invoices_df[i].Data_Utworzenia
            day == DayNumber(created.year, created.month, created.day)
        IN  /\ HasInterval
            /\ arg.invoices_df[i].ID_Subskrypcji = arg.row.ID_Suba_STRIPE[1]
            /\ arg.invoices_df[i].Status_Faktury = "paid"
            /\ Last2Window[1] <= day
            /\ day <= Last2Window[2]}

\* the second configured month has a day 31
Last2BoundIsDate ==
    config.invoice_status_last_2_months.month2 \in {1, 3, 5, 7, 8, 10, 12}

Retryable(o) ==
    \/ o.error \in {"Timeout", "RequestException"}
    \/ o.error = "" /\ (o.status_code = 429 \/ o.status_code \in 500..599)

\* a client error: 4xx other than 429
ClientError(o) == o.error = "" /\ o.status_code \in 400..499 /\ o.status_code # 429

\* C22: one page request issues between one and three attempts; every attempt
\* before the last one issued ended in 429, 5xx, a timeout or a connection
\* error; when the last one issued ended in 200 or in a client error the
\* request returns that response, so that no attempt follows the first 200 or
\* a client error; and when it ended in a failure to retry it was the third,
\* and the request returns no response.
C22_AtMostThreeAttempts ==
    pc = "returned" =>
        LET n == result.attempts
        IN  /\ n \in 1..3
            /\ \A i \in 1..(n - 1) : Retryable(arg[i])
            /\ ~Retryable(arg[n]) =>
                  /\ arg[n].status_code = 200 \/ ClientError(arg[n])
                  /\ result.status_code = arg[n].status_code
            /\ Retryable(arg[n]) => n = 3 /\ result.status_code = 0
            /\ ClientError(arg[1]) => n = 1

\* C22 witness: a request whose first attempt is rate limited and whose
\* second ends in a client error; two attempts are issued and the client
\* error is returned although the third attempt would have succeeded
C22_Witness ==
    /\ pc = "returned"
    /\ arg[1].status_code = 429
    /\ ClientError(arg[2])
    /\ arg[3].status_code = 200
    /\ result.attempts = 2
    /\ result.status_code = arg[2].status_code

(***************************************************************************)
(* C23: the loop bound of a paged fetch (checked under SpecFetchRevised)   *)
(***************************************************************************)
\* C23: in a paged fetch every request after the first asks for a page index
\* that is at most the page count declared by the answer before it, and a
\* fetch whose requests were all answered returns only when the next page
\* index is above the page count the last answer declared.
C23_LoopFollowsLatestCount ==
    /\ \A k \in 2..Len(requested) :
          k - 1 <= Len(declared) => requested[k] <= declared[k - 1]
    /\ (fpc = "returned" /\ page_failed = 0 /\ declared # <<>>) =>
          requested[Len(requested)] + 1 > declared[Len(declared)]

\* fetch_calendesk_data keeps to the rule of C23, also when the declared page
\* count grows or shrinks between two of its requests
C23_HeldByFetchCalendeskData ==
    fetcher = "fetch_calendesk_data" => C23_LoopFollowsLatestCount

(***************************************************************************)
(* C24: the cursor-style invoice fetch (checked under SpecStripe)          *)
(***************************************************************************)
\* C24: the first request carries no starting_after and every later request
\* carries the id of the last record of the answer before it; an answer that
\* reports no more data or holds no record is the last one requested, and the
\* fetch has returned after it; and a fetch that has returned gives all the
\* records of the answers it received, in order.
C24_CursorFollowsLastRecord ==
    /\ \A k \in 1..Len(requested) :
          requested[k] = IF k = 1 THEN 0 ELSE served[k - 1][Len(served[k - 1])]
    /\ \A k \in 1..Len(served) :
          (~declared[k] \/ served[k] = <<>>) =>
              k = Len(requested) /\ fpc = "returned"
    /\ fpc = "returned" => all_data = Flatten(served)

\* C24 witness: a fetch of three pages of two invoices each; the second and
\* third requests carry the last id of the page before, the third answer
\* reports no more data, and all six invoices are returned
C24_Witness ==
    /\ fpc = "returned"
    /\ Len(served) = 3
    /\ \A k \in 1..3 : Len(served[k]) = 2
    /\ requested = <<0, served[1][2], served[2][2]>>
    /\ declared = <<TRUE, TRUE, FALSE>>
    /\ all_data = srv_records[url]
    /\ Len(all_data) = 6

(***************************************************************************)
(* C25: plan-metadata records sharing a join key (checked under Spec)      *)
(***************************************************************************)
\* the billing interval of the first fetched plan-metadata record, in input
\* order, with this plan identity; null when there is none
FirstPlanInterval(plan_id) ==
    LET plans == json_normalize_subscriptions(all_subscriptions)
        hits == {k \in 1..Len(plans) : plans[k].id = plan_id}
    IN  IF hits = {} THEN Null
        ELSE plans[CHOOSE k \in hits : \A h \in hits : k <= h].price_recurring_interval

\* C25: whatever plan-metadata records share a join key, the joined table
\* holds exactly one row for each fetched customer-subscription record, in
\* their order, and the row takes its billing interval from the first
\* plan-metadata record with its key.
C25_OneJoinedRowPerRecord ==
    AfterMerge =>
        /\ Len(df_merged) = Len(users_subscriptions)
        /\ \A i \in 1..Len(df_merged) :
              i <= Len(users_subscriptions) =>
                  /\ df_merged[i].id_x = users_subscriptions[i]
                  /\ df_merged[i].price_recurring_interval
                        = FirstPlanInterval(df_merged[i].subscription_id)

\* the rule of C25 holds as long as no two fetched plan-metadata records share
\* a key
C25_HeldWithoutSharedKeys ==
    (\A i, j \in 1..Len(all_subscriptions) :
        all_subscriptions[i] = all_subscriptions[j] => i = j)
    => C25_OneJoinedRowPerRecord

(***************************************************************************)
(* C26: absent and unparsable dates (checked under Spec)                   *)
(***************************************************************************)
\* the positions of the run at which the dates have been converted
AfterConversion == pc \in {"cancellation", "stripe", "crm", "date_cell", "worksheet",
                           "done", "failed", "crashed"}

\* the source value of a date field holds no date: it is absent or unparsable
NoDate(ts) == ts.k # "iso"

\* the run stopped after the join, which only the conversion of the dates does
StoppedAtConversion == pc = "aborted" /\ df_merged # <<>>

\* C26: no date value stops the run at the conversion of the dates, and once
\* the dates are converted the table holds every row that passed the filter,
\* each with null for a purchase, expiration or cancellation date whose
\* source value is absent or unparsable.
C26_BadDateBecomesNull ==
    /\ ~StoppedAtConversion
    /\ AfterConversion =>
          LET source == transform(filter(df_merged))
          IN  /\ Len(df_dated) = Len(source)
              /\ \A i \in 1..Len(df_dated) :
                    i <= Len(source) =>
                      /\ NoDate(source[i].Data_zakupu) => df_dated[i].Data_zakupu = Null
                      /\ NoDate(source[i].Data_wygasniecia)
                            => df_dated[i].Data_wygasniecia = Null
                      /\ NoDate(source[i].Data_anulowania)
                            => df_dated[i].Data_anulowania = Null

\* the rule of C26 holds of the expiration and cancellation dates: in every
\* run that gets past the conversion the rows are kept and these two fields
\* are null where their source holds no date
C26_HeldByExpirationAndCancellation ==
    AfterConversion =>
        LET source == transform(filter(df_merged))
        IN  /\ Len(df_dated) = Len(source)
            /\ \A i \in 1..Len(df_dated) :
                  i <= Len(source) =>
                    /\ NoDate(source[i].Data_wygasniecia)
                          => df_dated[i].Data_wygasniecia = Null
                    /\ NoDate(source[i].Data_anulowania)
                          => df_dated[i].Data_anulowania = Null

(***************************************************************************)
(* C27: the rectangle of the bulk write (checked under SpecSheet)          *)
(***************************************************************************)
\* the bulk writes a step adds to the requests issued
NewBulkWrites ==
    SelectSeq(SubSeq(ops', Len(ops) + 1, Len(ops')),
              LAMBDA o : o.by = "update_excel_worksheet_directly")

\* C27: a call of the writer with a table of N >= 1 records of F fields
\* issues one bulk write, to the rectangle from row 2 to row N + 1 and from
\* column index 3 to column index 3 + F - 1, whose end column is the letter
\* form of that index; with a table of no record it issues no bulk write and
\* reports success.
C27_BulkWriteRectangle ==
    [][WriterStep =>
        IF Len(df_calendesk) = 0
        THEN NewBulkWrites = <<>> /\ subscriptions_success'
        ELSE /\ Len(NewBulkWrites) = 1
             /\ LET write == NewBulkWrites[1]
                    N == Len(df_calendesk)
                    F == Len(write.values[1])
                IN  /\ Len(write.values) = N
                    /\ F = Len(Columns)
                    /\ write.address.start_row = 2
                    /\ write.address.end_row = N + 1
                    /\ ColumnValue(write.address.start_col) = start_col_num
                    /\ ColumnValue(write.address.end_col) = start_col_num + F - 1
                    /\ write.address.end_col = get_column_letter(start_col_num + F - 1)]_vars

\* C27 witness: the writer was called with a table of one record and then
\* with an empty one; the first call wrote C2:U2, the second cleared and
\* wrote nothing, and reported success
C27_Witness ==
    /\ pc \in {"done", "failed"}
    /\ Len(df_calendesk) = 0
    /\ subscriptions_success
    /\ Len(Clears) = 2
    /\ Len(BulkWrites) = 1
    /\ BulkWrites[1].address = Address(<<"C">>, 2, <<"U">>, 2)
    /\ ops[Len(ops)].by = "clear_excel_worksheet"

(***************************************************************************)
(* C28: window bounds that are no calendar date (checked under             *)
(* SpecInvoiceStatus)                                                      *)
(***************************************************************************)
\* C28: whatever the target month, for a row with a payment-subscription
\* reference neither the chosen-month nor the last-two-months calculation
\* raises: the derivation is never ended by one of them, and once both are
\* done each has given a text.
C28_NoWindowBoundRaises ==
    HasReference(arg.row) =>
        /\ pc # "crashed"
        /\ pc = "last_month" => Len(result) = 2

\* the two calculations raise for no row without a reference and for no row
\* without a billing interval, and for the other rows they raise only when
\* the target month has no day 31
C28_RaisedOnlyInShorterMonths ==
    pc = "crashed" =>
        /\ HasReference(arg.row)
        /\ arg.row.Typ_pakietu \in {Some("miesieczny"), Some("roczny")}
        /\ config.invoice_status_chosen_month.month \in {2, 4, 6, 9, 11}

(***************************************************************************)
(* C29: the date cell and the bulk write (checked under Spec)              *)
(***************************************************************************)
\* the date cell A2 shows the date of this run
ShowsRunDate == sheet[<<2, 1>>] \in Dates

\* C29: when a run is over and the date cell shows its date, the managed data
\* region holds the table of that run: the cell is not updated by a run whose
\* bulk write failed.
C29_DateCellImpliesTableWritten ==
    (pc \in {"done", "failed"} /\ ShowsRunDate) =>
        ManagedCells(sheet) = ManagedCells(SheetHolding(df_calendesk))

(***************************************************************************)
(* C30: the CRM task fetch (checked under SpecCrm)                         *)
(***************************************************************************)
\* the requests so far ask for pages 0, 1, 2, ... in this order, each once
CountsUpFromZero == requested = [k \in 1..Len(requested) |-> k - 1]

\* an answer with another status than 200 ended the fetch and the tasks of the
\* answers before it are kept
StopsAtFirstFailure ==
    fail_kind # "" =>
        /\ fpc = "returned"
        /\ Len(requested) = Len(served) + 1
        /\ all_data = Flatten(served)

\* C30: the task fetch requests the page indices 0, 1, 2, ... each once and in
\* increasing order; every request after the first asks for an index below
\* the page count declared by the answer before it, so that the number of
\* requests is bounded by the declared counts; and it stops at the first
\* answer with another status than 200, keeping the tasks gathered so far.
C30_NoPageBeyondDeclaredCount ==
    /\ CountsUpFromZero
    /\ \A k \in 2..Len(requested) :
          k - 1 <= Len(declared) => requested[k] < declared[k - 1]
    /\ StopsAtFirstFailure

\* the fetch keeps to C30 but for the bound of the index: it goes as far as
\* the index equal to the declared page count, one page further than the
\* claim allows
C30_HeldUpToOnePageMore ==
    /\ CountsUpFromZero
    /\ \A k \in 2..Len(requested) :
          k - 1 <= Len(declared) => requested[k] <= declared[k - 1]
    /\ StopsAtFirstFailure

====
